---- MODULE Spec2Model ----
(***************************************************************************)
(* Verification model of smolvm.                                           *)
(*                                                                         *)
(* Part I   : HelperManager (src/src/helper/manager.rs): the host-side     *)
(*            lifecycle of the hypervisor child process, with its callers  *)
(*            as threads sharing one manager (inner: Arc<Mutex<..>>).      *)
(* Part II  : the guest agent's connection loop                            *)
(*            (src/crates/smolvm-agent/src/main.rs).                       *)
(* Part III : the receivers of the framed protocol.                        *)
(* Part IV  : the codec of the framed protocol                             *)
(*            (src/crates/smolvm-protocol/src/lib.rs).                     *)
(* Part V   : the guest's storage engine                                   *)
(*            (src/crates/smolvm-agent/src/storage.rs).                    *)
(* Part VI  : the registry of sandboxes of the HTTP server                 *)
(*            (src/src/api/state.rs) and the requests that use it.         *)
(* Part VII : the startup of the HTTP server                                *)
(*            (ApiState::load_persisted_sandboxes).                         *)
(* Part VIII: the pure functions (status codes, exit codes, sanitizers).    *)
(* Part IX  : the registry file and the processes that save it             *)
(*            (src/src/config.rs, src/src/main.rs, src/src/cli/create.rs). *)
(*                                                                         *)
(* Each part has its own specification; the variables of the other parts   *)
(* stay at their initial values.                                           *)
(***************************************************************************)
EXTENDS Integers, Sequences, FiniteSets, TLC

(***************************************************************************)
(* Bounds                                                                  *)
(***************************************************************************)
\* number of pids fork() can hand out before it fails
MaxPids == 2
\* number of requests the host writes on one agent connection
MaxReqs == 2
\* number of output chunks the subjects of the interactive Runs of one
\* connection write in total
MaxChunks == 2
\* number of overlay mounts that can be stacked on one merged directory
MaxMounts == 2
\* length of the short strings handed to the sanitizers
MaxLen == 2

Threads == {"t1", "t2"}
Pids == 1..MaxPids

VARIABLES
    \* ---- HelperInner (manager.rs:29-33)
    state,        \* HelperState
    child_pid,    \* Option<pid_t>: 0 is None
    \* ---- the host's process table and file system
    proc,         \* pid -> "unborn" | "booting" | "serving" | "zombie" | "reaped"
    sockFile,     \* the control socket file: 0 = absent, p = created by child p
    \* ---- the callers of the manager
    pc,           \* thread -> position in the call
    call,         \* thread -> the public method it is executing
    loc           \* thread -> the locals of the call (see NoLocals)

VARIABLES
    \* ---- one control connection of the guest agent (agent main.rs)
    reqs,         \* the requests the host has written on the connection, in order
    rd,           \* how many of them the agent has read
    out,          \* the frames the agent has written on the connection, in order
    apc,          \* the agent's position: "read" | "sess_wait" | "sess_deadline" |
                  \*   "sess_io" | "run_wait" | "returned_ok" | "returned_err"
    hostOpen,     \* the host's end of the connection is open
    child,        \* the subject process of the request being handled:
                  \*   "none" | "running" | "exited" (not yet waited for)
    pout,         \* chunks waiting in its stdout pipe
    perr,         \* chunks waiting in its stderr pipe
    written,      \* chunks written by the subjects of this connection so far
    expired,      \* the request's timeout_ms has elapsed since the wait began
    sigkills,     \* the requests whose subject the agent has sent SIGKILL
    syncs         \* number of sync(2) calls the agent has made

VARIABLES
    \* ---- one frame arriving at one receiver of the framed protocol
    frRecv,       \* the receiver
    frHeader,     \* the 4 header bytes
    frPc,         \* "header" | "done"
    frAlloc,      \* size of the payload buffer the receiver allocated (0: none)
    frResult      \* "none" | "too_large" | "read_payload"

VARIABLES
    \* ---- one message passing through the codec (smolvm-protocol lib.rs)
    cdMsg,        \* the value handed to encode_message
    cdWire,       \* the bytes encode_message returned
    cdOut,        \* what decode_message returned for them
    cdPc          \* "idle" | "encoded" | "decoded"

VARIABLES
    \* ---- the storage disk of the guest (storage.rs), mounted at /storage
    stManifests,  \* manifests/: file name -> the image whose manifest the file
                  \*   holds, "none" if there is no such file
    stConfigs,    \* configs/: the config digests that have a file
    stLayers,     \* layers/: the names of the directories
    stOverlay,    \* overlays/: workload id -> [dir: overlays/{wid} exists,
                  \*   mounts: number of overlay mounts on overlays/{wid}/merged]
    \* ---- the requests the agent has served
    stLast,       \* the last request and its result (see Served)
    stAgain,      \* the last request repeats the one before it, which succeeded
    stTouched,    \* the layer directories the last request created, wrote or removed
    stPrepared    \* the workload ids PrepareOverlay was ever called for

VARIABLES
    \* ---- ApiState (api/state.rs:13-18) and its persisted configuration
    apSandboxes,  \* sandboxes: name -> the entry registered under it ("none")
    apConfig,     \* config.vms: name -> the record persisted for it ("none")
    apReaders,    \* the requests that hold a read lock on sandboxes
    apWriter,     \* the request that has set the writer bit of sandboxes
                  \*   (it holds the write lock once apReaders is empty)
    apMutex,      \* entry -> the request that holds its mutex ("none")
    apStopped,    \* the entries whose VM was stopped and not started since
    \* ---- the HTTP requests
    apReq         \* request -> [kind, arg, pc, entry, visited, res]

VARIABLES
    \* ---- the startup of the HTTP server (api/state.rs:33-108)
    ldVms,        \* the registry file: name -> its record (see NoRecord)
    ldAlive,      \* the pids for which kill(pid, 0) returns 0
    ldPing,       \* the names whose control socket answers a ping
    ldSandboxes,  \* sandboxes: the names that have an entry in memory
    ldVisited,    \* the records load_persisted_sandboxes has been through
    ldPc          \* "new" | "loading" | "loaded"

VARIABLES
    \* ---- the registry file and its writers (config.rs, main.rs)
    rfFile,       \* the registry file: name -> the state of its record
    rfProc,       \* process -> [pc, vms, arg]: its copy of the registry
    rfLast        \* [proc, name]: the last save and the record it was for

VARIABLES
    \* ---- one call of a pure function
    fnCall        \* [fn, arg, res]: the function, its argument, its result

inner == <<state, child_pid>>
env == <<proc, sockFile>>
mgrVars == <<state, child_pid, proc, sockFile, pc, call, loc>>
subject == <<child, pout, perr>>
agVars == <<reqs, rd, out, apc, hostOpen, subject, written, expired, sigkills, syncs>>
frVars == <<frRecv, frHeader, frPc, frAlloc, frResult>>
cdVars == <<cdMsg, cdWire, cdOut, cdPc>>
stDisk == <<stManifests, stConfigs, stLayers, stOverlay>>
stVars == <<stDisk, stLast, stAgain, stTouched, stPrepared>>
apVars == <<apSandboxes, apConfig, apReaders, apWriter, apMutex, apStopped, apReq>>
ldVars == <<ldVms, ldAlive, ldPing, ldSandboxes, ldVisited, ldPc>>
rfVars == <<rfFile, rfProc, rfLast>>
vars == <<mgrVars, agVars, frVars, cdVars, stVars, apVars, ldVars, rfVars, fnCall>>

(***************************************************************************)
(* Part I: HelperManager                                                   *)
(***************************************************************************)
HelperState == {"Stopped", "Starting", "Running", "Stopping"}

\* cp      : stop's local `child_pid` (manager.rs:254-257)
\* pid     : start's local `child_pid`, the value fork returned (manager.rs:219)
\* polled  : the polling loop the thread is in has made an iteration; its
\*           timeout can have elapsed at any later test of the loop condition
\* ack     : how stop's Shutdown attempt ended: "none" (not made yet),
\*           "noconn", "reply", "eagain", "hard"; the code discards it
\*           (`let _ =`), here it is remembered until the SIGTERM wait ends
\* waiter  : the caller of wait_for_ready: "start" | "ensure"
NoLocals == [cp |-> 0, pid |-> 0, polled |-> FALSE, ack |-> "none", waiter |-> "start"]

Alive(p) == proc[p] \in {"booting", "serving"}
\* the child's vsock listener accepts connections on its socket file
Listening(p) == proc[p] = "serving"

AliveChildren == {p \in Pids : Alive(p)}

MgrInit ==
    /\ state = "Stopped"
    /\ child_pid = 0
    /\ proc = [p \in Pids |-> "unborn"]
    /\ sockFile = 0
    /\ pc = [t \in Threads |-> "idle"]
    /\ call = [t \in Threads |-> "none"]
    /\ loc = [t \in Threads |-> NoLocals]

Goto(t, l) == pc' = [pc EXCEPT ![t] = l]

\* a public method is entered from "idle"; start is also entered from
\* ensure_running, at "start"
Enter(t, from, method) ==
    /\ pc[t] \in {"idle", from}
    /\ call' = [call EXCEPT ![t] = IF pc[t] = "idle" THEN method ELSE @]

\* the variables of the other parts
MgrOnly == UNCHANGED <<agVars, frVars, cdVars, stVars, apVars, ldVars, rfVars, fnCall>>

(***************************************************************************)
(* The child process (launcher.rs, libkrun) and the guest it boots         *)
(***************************************************************************)
\* libkrun binds the vsock port to the control socket file (launcher.rs,
\* krun_add_vsock_port2 with listen = true) and enters the guest; from then
\* on a connection reaches the guest, whose daemon may or may not answer yet
ChildBind(p) ==
    /\ proc[p] = "booting"
    /\ sockFile = 0
    /\ proc' = [proc EXCEPT ![p] = "serving"]
    /\ sockFile' = p
    /\ UNCHANGED <<inner, pc, call, loc>>
    /\ MgrOnly

\* the child exits: _exit(1) after a failed launch, a guest crash, or a
\* delivered SIGTERM; the socket file stays behind
ChildExit(p) ==
    /\ Alive(p)
    /\ proc' = [proc EXCEPT ![p] = "zombie"]
    /\ UNCHANGED <<inner, sockFile, pc, call, loc>>
    /\ MgrOnly

(***************************************************************************)
(* HelperManager::start (manager.rs:144-250)                               *)
(***************************************************************************)
\* manager.rs:146-154: under the lock, refuse unless Stopped, else Starting
StartCheck(t) ==
    /\ Enter(t, "start", "start")
    /\ IF state # "Stopped"
       THEN /\ Goto(t, "ret_err")
            /\ UNCHANGED state
       ELSE /\ state' = "Starting"
            /\ Goto(t, "start_rootfs")
    /\ UNCHANGED <<child_pid, env, loc>>
    /\ MgrOnly

\* manager.rs:163-174: the rootfs must exist; then remove the old socket file
StartRootfs(t) ==
    /\ pc[t] = "start_rootfs"
    /\ \E exists \in BOOLEAN :
         IF ~exists
         THEN /\ state' = "Stopped"
              /\ Goto(t, "ret_err")
              /\ UNCHANGED sockFile
         ELSE /\ sockFile' = 0
              /\ Goto(t, "start_fork")
              /\ UNCHANGED state
    /\ UNCHANGED <<child_pid, proc, call, loc>>
    /\ MgrOnly

\* the pid fork() returns: the next one never used
FreshPid(p) == proc[p] = "unborn" /\ \A q \in Pids : q < p => proc[q] # "unborn"

\* manager.rs:177-186, 219-221: fork; -1 puts the state back to Stopped
StartFork(t) ==
    /\ pc[t] = "start_fork"
    /\ \/ /\ state' = "Stopped"
          /\ Goto(t, "ret_err")
          /\ UNCHANGED <<proc, loc>>
       \/ \E p \in Pids :
            /\ FreshPid(p)
            /\ proc' = [proc EXCEPT ![p] = "booting"]
            /\ loc' = [loc EXCEPT ![t].pid = p]
            /\ Goto(t, "start_store")
            /\ UNCHANGED state
    /\ UNCHANGED <<child_pid, sockFile, call>>
    /\ MgrOnly

\* manager.rs:224-230: record the pid under the lock, enter wait_for_ready
StartStore(t) ==
    /\ pc[t] = "start_store"
    /\ child_pid' = loc[t].pid
    /\ loc' = [loc EXCEPT ![t].waiter = "start", ![t].polled = FALSE]
    /\ Goto(t, "wfr_poll")
    /\ UNCHANGED <<state, env, call>>
    /\ MgrOnly

\* manager.rs:231-236: readiness succeeded
StartReady(t) ==
    /\ pc[t] = "start_ready"
    /\ state' = "Running"
    /\ Goto(t, "ret_ok")
    /\ UNCHANGED <<child_pid, env, call, loc>>
    /\ MgrOnly

\* manager.rs:238-241: readiness failed: kill(child_pid, SIGTERM), no wait
StartFailKill(t) ==
    /\ pc[t] = "start_fail_kill"
    /\ Goto(t, "start_fail_set")
    /\ UNCHANGED <<inner, env, call, loc>>
    /\ MgrOnly

\* a failed start that puts the state back and keeps the pid of its child
StartFailSet_KeepPid(t) ==
    /\ pc[t] = "start_fail_set"
    /\ state' = "Stopped"
    /\ Goto(t, "ret_err")
    /\ UNCHANGED <<child_pid, env, call, loc>>
    /\ MgrOnly

\* manager.rs:242-245
StartFailSet(t) ==
    /\ pc[t] = "start_fail_set"
    /\ state' = "Stopped"
    /\ child_pid' = 0
    /\ Goto(t, "ret_err")
    /\ UNCHANGED <<env, call, loc>>
    /\ MgrOnly

(***************************************************************************)
(* HelperManager::wait_for_ready (manager.rs:322-378)                      *)
(***************************************************************************)
\* the return of wait_for_ready to its caller (manager.rs:134, 230-247)
WfrDone(t, ok) ==
    /\ loc' = [loc EXCEPT ![t].polled = FALSE]
    /\ IF loc[t].waiter = "start"
       THEN Goto(t, IF ok THEN "start_ready" ELSE "start_fail_kill")
       ELSE Goto(t, IF ok THEN "ret_ok" ELSE "ret_err")

\* a readiness loop without a timeout
WfrPoll_NoTimeout(t) ==
    /\ pc[t] = "wfr_poll"
    /\ IF child_pid # 0 /\ proc[child_pid] = "zombie"
       THEN proc' = [proc EXCEPT ![child_pid] = "reaped"] /\ WfrDone(t, FALSE)
       ELSE Goto(t, "wfr_probe") /\ UNCHANGED <<proc, loc>>
    /\ UNCHANGED <<inner, sockFile, call>>
    /\ MgrOnly

\* manager.rs:329-344: the 30 s timeout test, then waitpid(WNOHANG) under the lock
WfrPoll(t) ==
    /\ pc[t] = "wfr_poll"
    /\ \/ /\ loc[t].polled
          /\ WfrDone(t, FALSE)
          /\ UNCHANGED proc
       \/ IF child_pid # 0 /\ proc[child_pid] = "zombie"
          THEN proc' = [proc EXCEPT ![child_pid] = "reaped"] /\ WfrDone(t, FALSE)
          ELSE Goto(t, "wfr_probe") /\ UNCHANGED <<proc, loc>>
    /\ UNCHANGED <<inner, sockFile, call>>
    /\ MgrOnly

\* HelperClient::ping over a fresh connection (client.rs:75-83): a Pong
\* needs the socket file of a child that is serving
PingOk == sockFile # 0 /\ Listening(sockFile)

\* manager.rs:346-371: exists, connect, ping; else sleep and poll again
WfrProbe(t) ==
    /\ pc[t] = "wfr_probe"
    /\ \/ /\ PingOk
          /\ WfrDone(t, TRUE)
       \/ /\ loc' = [loc EXCEPT ![t].polled = TRUE]
          /\ Goto(t, "wfr_poll")
    /\ UNCHANGED <<inner, env, call>>
    /\ MgrOnly

(***************************************************************************)
(* HelperManager::stop (manager.rs:253-319)                                *)
(***************************************************************************)
\* manager.rs:254-261: snapshot (state, child_pid); nothing to do if Stopped
StopRead(t) ==
    /\ pc[t] = "idle"
    /\ call' = [call EXCEPT ![t] = "stop"]
    /\ loc' = [loc EXCEPT ![t].cp = child_pid]
    /\ Goto(t, IF state = "Stopped" THEN "ret_ok" ELSE "stop_set")
    /\ UNCHANGED <<inner, env>>
    /\ MgrOnly

\* a stop that signals the child before it attempts the graceful Shutdown
StopSet_SignalFirst(t) ==
    /\ pc[t] = "stop_set"
    /\ state' = "Stopping"
    /\ Goto(t, "stop_signal")
    /\ UNCHANGED <<child_pid, env, call, loc>>
    /\ MgrOnly

\* manager.rs:263-266: a second critical section sets Stopping
StopSet(t) ==
    /\ pc[t] = "stop_set"
    /\ state' = "Stopping"
    /\ Goto(t, "stop_shutdown")
    /\ UNCHANGED <<child_pid, env, call, loc>>
    /\ MgrOnly

\* How HelperClient::connect followed by HelperClient::shutdown can end
\* (client.rs:26-40, 43-72, 214-222):
\*   "noconn" : connect failed, no Shutdown is sent
\*   "reply"  : a response frame was read
\*   "eagain" : the read timed out (EAGAIN / EWOULDBLOCK)
\*   "hard"   : any other error of the write or the read
ShutdownOutcomes ==
    IF sockFile # 0 /\ Listening(sockFile)
    THEN {"reply", "eagain", "hard"}
    ELSE {"noconn"}

\* manager.rs:271-275: `if let Ok(client) = connect { let _ = client.shutdown(); sleep }`
StopShutdown(t) ==
    /\ pc[t] = "stop_shutdown"
    /\ \E o \in ShutdownOutcomes : loc' = [loc EXCEPT ![t].ack = o]
    /\ Goto(t, "stop_signal")
    /\ UNCHANGED <<inner, env, call>>
    /\ MgrOnly

\* manager.rs:278-285: with a child pid in the snapshot, kill(pid, SIGTERM)
StopSignal(t) ==
    /\ pc[t] = "stop_signal"
    /\ IF loc[t].cp = 0
       THEN Goto(t, "stop_clean") /\ loc' = [loc EXCEPT ![t].ack = "none"]
       ELSE Goto(t, "stop_wait") /\ loc' = [loc EXCEPT ![t].polled = FALSE]
    /\ UNCHANGED <<inner, env, call>>
    /\ MgrOnly

\* manager.rs:286-299: poll waitpid(pid, WNOHANG) for up to 5 s
StopWait(t) ==
    /\ pc[t] = "stop_wait"
    /\ LET p == loc[t].cp IN
       \/ /\ loc[t].polled
          /\ Goto(t, "stop_kill")
          /\ loc' = [loc EXCEPT ![t].polled = FALSE]
          /\ UNCHANGED proc
       \/ IF proc[p] = "zombie"
          THEN /\ proc' = [proc EXCEPT ![p] = "reaped"]
               /\ Goto(t, "stop_kill")
               /\ loc' = [loc EXCEPT ![t].polled = FALSE]
          ELSE IF proc[p] = "reaped"
               THEN /\ Goto(t, "stop_kill")
                    /\ loc' = [loc EXCEPT ![t].polled = FALSE]
                    /\ UNCHANGED proc
               ELSE /\ loc' = [loc EXCEPT ![t].polled = TRUE]
                    /\ UNCHANGED <<proc, pc>>
    /\ UNCHANGED <<inner, sockFile, call>>
    /\ MgrOnly

\* a stop that gives up after the SIGTERM wait without SIGKILL and waitpid
StopKill_NoReap(t) ==
    /\ pc[t] = "stop_kill"
    /\ loc' = [loc EXCEPT ![t].ack = "none"]
    /\ Goto(t, "stop_clean")
    /\ UNCHANGED <<inner, env, call>>
    /\ MgrOnly

\* manager.rs:301-305: kill(pid, SIGKILL); waitpid(pid, NULL, 0), always
StopKill(t) ==
    /\ pc[t] = "stop_kill"
    /\ LET p == loc[t].cp IN
       proc' = [proc EXCEPT ![p] = "reaped"]
    /\ loc' = [loc EXCEPT ![t].ack = "none"]
    /\ Goto(t, "stop_clean")
    /\ UNCHANGED <<inner, sockFile, call>>
    /\ MgrOnly

\* manager.rs:309-313
StopClean(t) ==
    /\ pc[t] = "stop_clean"
    /\ state' = "Stopped"
    /\ child_pid' = 0
    /\ Goto(t, "stop_rmsock")
    /\ UNCHANGED <<env, call, loc>>
    /\ MgrOnly

\* manager.rs:316-318: remove the socket file, return Ok
StopRmsock(t) ==
    /\ pc[t] = "stop_rmsock"
    /\ sockFile' = 0
    /\ Goto(t, "ret_ok")
    /\ UNCHANGED <<inner, proc, call, loc>>
    /\ MgrOnly

(***************************************************************************)
(* HelperManager::ensure_running (manager.rs:129-141) and wait_for_stop    *)
(* (manager.rs:381-393)                                                    *)
(***************************************************************************)
\* manager.rs:130-140: read the state once, then dispatch on it
EnsureRead(t) ==
    /\ pc[t] = "idle"
    /\ call' = [call EXCEPT ![t] = "ensure"]
    /\ CASE state = "Running"  -> Goto(t, "ret_ok") /\ UNCHANGED loc
         [] state = "Starting" -> /\ Goto(t, "wfr_poll")
                                  /\ loc' = [loc EXCEPT ![t].waiter = "ensure", ![t].polled = FALSE]
         [] state = "Stopped"  -> Goto(t, "start") /\ UNCHANGED loc
         [] state = "Stopping" -> /\ Goto(t, "wfs_poll")
                                  /\ loc' = [loc EXCEPT ![t].polled = FALSE]
    /\ UNCHANGED <<inner, env>>
    /\ MgrOnly

\* manager.rs:385-392: poll the state for up to 10 s; Ok leads to start()
WfsPoll(t) ==
    /\ pc[t] = "wfs_poll"
    /\ \/ /\ loc[t].polled
          /\ Goto(t, "ret_err")
          /\ loc' = [loc EXCEPT ![t].polled = FALSE]
       \/ IF state = "Stopped"
          THEN Goto(t, "start") /\ loc' = [loc EXCEPT ![t].polled = FALSE]
          ELSE loc' = [loc EXCEPT ![t].polled = TRUE] /\ UNCHANGED pc
    /\ UNCHANGED <<inner, env, call>>
    /\ MgrOnly

\* the public method returns to its caller
Return(t) ==
    /\ pc[t] \in {"ret_ok", "ret_err"}
    /\ Goto(t, "idle")
    /\ call' = [call EXCEPT ![t] = "none"]
    /\ loc' = [loc EXCEPT ![t] = NoLocals]
    /\ UNCHANGED <<inner, env>>
    /\ MgrOnly

(***************************************************************************)
(* Specification of Part I: any interleaving of callers                    *)
(***************************************************************************)
\* a connection just accepted by run_server (agent main.rs:52-56)
AgentInit ==
    /\ reqs = <<>> /\ rd = 0 /\ out = <<>> /\ apc = "read" /\ hostOpen = TRUE
    /\ child = "none" /\ pout = 0 /\ perr = 0 /\ written = 0
    /\ expired = FALSE /\ sigkills = {} /\ syncs = 0

\* no frame has arrived yet
FrameInit ==
    /\ frRecv = "none" /\ frHeader = <<>> /\ frPc = "done" /\ frAlloc = 0
    /\ frResult = "none"

\* nothing has been encoded yet
CodecInit ==
    /\ cdMsg = "none" /\ cdWire = "none" /\ cdOut = "none" /\ cdPc = "idle"

\* the image references of the model, and the workload ids: one a client
\* chooses, and the sticky one of the Runs of lib/a:1
Images == {"lib/a:1", "b:1"}
Wids == {"wl-1", "persistent-lib_a_1"}
\* the references with lib/a/1, a repository of three path components
Refs == Images \cup {"lib/a/1"}
\* sanitize_image_name (storage.rs:943-945): '/', ':' and '@' become '_'
sanitize_image_name(image) ==
    CASE image = "lib/a:1" -> "lib_a_1"
      [] image = "lib/a/1" -> "lib_a_1"
      [] image = "b:1" -> "b_1"
Keys == {sanitize_image_name(image) : image \in Images}
\* a served request: op is "Pull" | "Query" | "GarbageCollect" |
\* "PrepareOverlay" | "CleanupOverlay", arg is its image, workload id or
\* dry_run flag, res is "ok" or the error, info is the data of an Ok (of an
\* extraction error: the digest of the layer), net tells whether the
\* request went to the registry
Served(op, image, arg, res, info, net) ==
    [op |-> op, image |-> image, arg |-> arg, res |-> res, info |-> info,
     net |-> net]
NoRequest == Served("none", "none", "none", "none", "none", FALSE)

\* the storage disk after format() and init() (storage.rs:59-147, 150-198):
\* the four directories exist and are empty
StorageInit ==
    /\ stManifests = [k \in Keys |-> "none"]
    /\ stConfigs = {}
    /\ stLayers = {}
    /\ stOverlay = [w \in Wids |-> [dir |-> FALSE, mounts |-> 0]]
    /\ stLast = NoRequest /\ stAgain = FALSE /\ stTouched = {} /\ stPrepared = {}

\* the HTTP requests of the model, the sandbox names, and the entries: an
\* entry is named after the sandbox it was loaded for at startup or after the
\* request that registered it
Requests == {"r1", "r2", "r3", "r4"}
Names == {"a", "b", "c"}
Entries == Names \cup Requests
NoCall == [kind |-> "none", arg |-> "none", pc |-> "idle", entry |-> "none",
           visited |-> {}, res |-> "none"]

\* the server after startup (ApiState::new and load_persisted_sandboxes,
\* api/state.rs:33-108): sandboxes a and b were found running and have an
\* entry and a record, c does not exist; no request has arrived
ApiInit ==
    /\ apSandboxes = [n \in Names |-> IF n = "c" THEN "none" ELSE n]
    /\ apConfig = [n \in Names |-> IF n = "c" THEN "none" ELSE n]
    /\ apReaders = {} /\ apWriter = "none"
    /\ apMutex = [e \in Entries |-> "none"]
    /\ apStopped = {}
    /\ apReq = [r \in Requests |-> NoCall]

\* the server process before ApiState::new (api/state.rs:33-40): the
\* registry file has not been read, the map of sandboxes is empty
\* a name without a record in the registry file
NoRecord == [state |-> "absent", pid |-> 0]
LoadInit ==
    /\ ldVms = [n \in {"a", "b"} |-> NoRecord] /\ ldAlive = {} /\ ldPing = {}
    /\ ldSandboxes = {} /\ ldVisited = {} /\ ldPc = "new"

\* the processes that save the registry file: two runs of the command line
\* and the HTTP server; the names of the VMs
Cli == {"cli1", "cli2"}
Procs == Cli \cup {"server"}
RfNames == {"a", "b"}
\* SmolvmConfig::default (config.rs): no VM is recorded
NoVms == [n \in RfNames |-> "none"]
\* the registry file does not exist and no process has started
RegistryInit ==
    /\ rfFile = NoVms
    /\ rfProc = [p \in Procs |-> [pc |-> "new", vms |-> NoVms, arg |-> "none"]]
    /\ rfLast = [proc |-> "none", name |-> "none"]

\* no pure function has been called
FnInit == fnCall = [fn |-> "none", arg |-> "none", res |-> "none"]

Init ==
    /\ MgrInit /\ AgentInit /\ FrameInit /\ CodecInit /\ StorageInit /\ ApiInit
    /\ LoadInit /\ RegistryInit /\ FnInit

Next ==
    \/ \E t \in Threads : StartCheck(t)
    \/ \E t \in Threads : StartRootfs(t)
    \/ \E t \in Threads : StartFork(t)
    \/ \E t \in Threads : StartStore(t)
    \/ \E t \in Threads : StartReady(t)
    \/ \E t \in Threads : StartFailKill(t)
    \/ \E t \in Threads : StartFailSet(t)
    \/ \E t \in Threads : WfrPoll(t)
    \/ \E t \in Threads : WfrProbe(t)
    \/ \E t \in Threads : StopRead(t)
    \/ \E t \in Threads : StopSet(t)
    \/ \E t \in Threads : StopShutdown(t)
    \/ \E t \in Threads : StopSignal(t)
    \/ \E t \in Threads : StopWait(t)
    \/ \E t \in Threads : StopKill(t)
    \/ \E t \in Threads : StopClean(t)
    \/ \E t \in Threads : StopRmsock(t)
    \/ \E t \in Threads : EnsureRead(t)
    \/ \E t \in Threads : WfsPoll(t)
    \/ \E t \in Threads : Return(t)
    \/ \E p \in Pids : ChildBind(p)
    \/ \E p \in Pids : ChildExit(p)

Spec == Init /\ [][Next]_vars

(***************************************************************************)
(* Specification of Part I with a single caller: the calls are made one    *)
(* after the other by thread Caller, and a call that was entered keeps     *)
(* running (the scheduler does not starve a runnable thread).  wait_for_   *)
(* stop is never entered: no call observes Stopping from outside.          *)
(***************************************************************************)
Caller == "t1"

CallerStep ==
    \/ StartCheck(Caller)
    \/ StartRootfs(Caller)
    \/ StartFork(Caller)
    \/ StartStore(Caller)
    \/ StartReady(Caller)
    \/ StartFailKill(Caller)
    \/ StartFailSet(Caller)
    \/ WfrPoll(Caller)
    \/ WfrProbe(Caller)
    \/ StopRead(Caller)
    \/ StopSet(Caller)
    \/ StopShutdown(Caller)
    \/ StopSignal(Caller)
    \/ StopWait(Caller)
    \/ StopKill(Caller)
    \/ StopClean(Caller)
    \/ StopRmsock(Caller)
    \/ EnsureRead(Caller)
    \/ Return(Caller)

SeqNext ==
    \/ CallerStep
    \/ \E p \in Pids : ChildBind(p)
    \/ \E p \in Pids : ChildExit(p)

SeqSpec ==
    Init /\ [][SeqNext]_vars /\ WF_vars(pc[Caller] # "idle" /\ CallerStep)

(***************************************************************************)
(* Specification of Part I with fair callers: any interleaving of calls,   *)
(* in which a call that was entered keeps running (no runnable thread is   *)
(* starved) and the clock advances, so that the loop of wait_for_ready     *)
(* finds its 30 s elapsed at one of its tests (manager.rs:329).  Nothing   *)
(* is assumed of the child; fork succeeds once.                            *)
(***************************************************************************)
ThreadStep(t) ==
    \/ StartCheck(t)
    \/ StartRootfs(t)
    \/ StartFork(t)
    \/ StartStore(t)
    \/ StartReady(t)
    \/ StartFailKill(t)
    \/ StartFailSet(t)
    \/ WfrPoll(t)
    \/ WfrProbe(t)
    \/ StopRead(t)
    \/ StopSet(t)
    \/ StopShutdown(t)
    \/ StopSignal(t)
    \/ StopWait(t)
    \/ StopKill(t)
    \/ StopClean(t)
    \/ StopRmsock(t)
    \/ EnsureRead(t)
    \/ WfsPoll(t)
    \/ Return(t)

\* wait_for_ready leaves its loop: the child was found exited or the
\* timeout has elapsed
WfrLeaves(t) == WfrPoll(t) /\ pc'[t] # "wfr_probe"

\* the host lets the manager fork one child: every later fork fails
\* (manager.rs:180-186)
FairNext == Next /\ \A p \in Pids : p > 1 => proc'[p] = "unborn"

FairSpec ==
    /\ Init /\ [][FairNext]_vars
    /\ \A t \in Threads : WF_vars(pc[t] # "idle" /\ ThreadStep(t))
    /\ \A t \in Threads : SF_vars(WfrLeaves(t))

(***************************************************************************)
(* Specification of Part I in which every call is ensure_running: the      *)
(* threads call it concurrently, again and again, on a manager that        *)
(* starts Stopped.                                                         *)
(***************************************************************************)
EnsureNext ==
    /\ Next
    /\ \A t \in Threads : (pc[t] = "idle" /\ pc'[t] # "idle") => call'[t] = "ensure"

EnsureSpec == Init /\ [][EnsureNext]_vars

(***************************************************************************)
(* Claims about Part I                                                     *)
(***************************************************************************)
LegalTransitions ==
    { <<"Stopped", "Starting">>, <<"Starting", "Running">>, <<"Starting", "Stopped">>,
      <<"Running", "Stopping">>, <<"Stopping", "Stopped">>, <<"Running", "Stopped">> }

\* C1: under any interleaving of ensure_running, start and stop, the manager
\* state changes only along Stopped->Starting, Starting->Running,
\* Starting->Stopped, Running->Stopping, Stopping->Stopped, Running->Stopped.
C1_OnlyListedTransitions ==
    [][state' # state => <<state, state'>> \in LegalTransitions]_vars

\* C2: at every moment at most one child forked by the manager is alive.
C2_AtMostOneChildAlive == Cardinality(AliveChildren) <= 1

\* stop has sent SIGTERM to the child (manager.rs:281) and not yet SIGKILL
SigtermSent(t) == pc[t] \in {"stop_wait", "stop_kill"}

StopReturns == pc[Caller] = "stop_rmsock" /\ pc'[Caller] = "ret_ok"

\* C5: a stop issued on a started sandbox returns (each of its waits ends
\* with its timeout at the latest), and at the moment it returns the child
\* has been reaped, the socket file does not exist and the state is Stopped.
C5_StopCompletes ==
    /\ [][(StopReturns /\ loc[Caller].cp # 0) =>
            /\ proc'[loc[Caller].cp] = "reaped"
            /\ sockFile' = 0
            /\ state' = "Stopped"]_vars
    /\ (pc[Caller] = "stop_set" /\ loc[Caller].cp # 0)
          ~> (pc[Caller] = "ret_ok" /\ call[Caller] = "stop")

C5_Witness ==
    /\ pc[Caller] = "ret_ok" /\ call[Caller] = "stop" /\ loc[Caller].cp # 0
    /\ proc[loc[Caller].cp] = "reaped"

\* the step on which a start of the caller fails: the rootfs is missing
\* (manager.rs:164-171), fork fails (manager.rs:180-186), or wait_for_ready
\* returned an error because the child exited or the timeout elapsed
\* (manager.rs:237-246)
StartFails ==
    /\ pc[Caller] \in {"start_rootfs", "start_fork", "start_fail_set"}
    /\ pc'[Caller] = "ret_err"

\* C25: if start fails (rootfs missing, fork failure, child exit during the
\* readiness loop, readiness timeout) it returns an error and leaves the
\* manager Stopped with no child pid recorded, so that the next
\* ensure_running starts again.
C25_FailedStartLeavesStopped ==
    /\ [][StartFails => (state' = "Stopped" /\ child_pid' = 0)]_vars
    /\ [][(pc[Caller] = "ret_err" /\ call[Caller] \in {"start", "ensure"}
             /\ state = "Stopped" /\ pc'[Caller] = "idle")
            => (state' = "Stopped" /\ child_pid' = 0)]_vars
    /\ [][(pc[Caller] = "idle" /\ call'[Caller] = "ensure" /\ state = "Stopped")
            => pc'[Caller] = "start"]_vars
    /\ (pc[Caller] \in {"start_fail_kill", "start_fail_set"})
          ~> (pc[Caller] = "ret_err")

\* a start has failed after it forked a child and has returned its error
C25_Witness ==
    /\ pc[Caller] = "ret_err" /\ call[Caller] = "start"
    /\ state = "Stopped" /\ child_pid = 0
    /\ loc[Caller].pid # 0

\* the step on which stop sends SIGKILL and waits (manager.rs:302-305)
SendsSigkill(t) == pc[t] = "stop_kill" /\ pc'[t] = "stop_clean"

\* C26: during stop, SIGKILL is sent to the child pid only if the child is
\* still alive after the SIGTERM wait; no signal is sent to, and no wait is
\* issued on, a pid that has already been reaped.
C26_SigkillOnlyIfAlive ==
    [][\A t \in Threads :
          SendsSigkill(t) =>
             (Alive(loc[t].cp) /\ proc[loc[t].cp] # "reaped")]_vars

\* the step on which start forks the child (manager.rs:177)
Forks(t) == pc[t] = "start_fork" /\ pc'[t] = "start_store"
\* the step on which the ping of wait_for_ready is answered (manager.rs:355-357)
ProbeAnswered(t) ==
    pc[t] = "wfr_probe" /\ pc'[t] \in {"start_ready", "ret_ok"}

\* every start forks only after it has removed the socket file
SocketRemovedBeforeFork ==
    [][\A t \in Threads : Forks(t) => sockFile = 0]_vars

\* C27: every start removes any pre-existing control socket file before it
\* forks the child, so the readiness probe and all later connections never
\* use a socket file left over from a previous run: the file they connect
\* to was created by the child of the current run.
C27_NoStaleSocket ==
    /\ SocketRemovedBeforeFork
    /\ [][ProbeAnswered(Caller) => sockFile = child_pid]_vars

\* no call of the manager is in progress
Quiescent == \A t \in Threads : pc[t] = "idle"

\* C28: once all in-flight calls have returned, Running implies that a child
\* pid is recorded, and Stopped implies that no child pid is recorded and
\* that no child forked by the manager is alive; also when stop ran
\* concurrently with start.
C28_QuiescentStateMatchesChild ==
    Quiescent =>
       /\ state = "Running" => child_pid # 0
       /\ state = "Stopped" => (child_pid = 0 /\ AliveChildren = {})

\* a call of thread t is in progress and has not reached its return
InCall(t) == pc[t] \notin {"idle", "ret_ok", "ret_err"}

\* C29: the transient states are always left: Starting is followed by
\* Running or Stopped, Stopping by Stopped, and every start, stop and
\* ensure_running call returns, under any interleaving of calls and any
\* behaviour of the child.
C29_TransientStatesAreLeft ==
    /\ (state = "Starting") ~> (state \in {"Running", "Stopped"})
    /\ (state = "Stopping") ~> (state = "Stopped")
    /\ \A t \in Threads : InCall(t) ~> (pc[t] \in {"ret_ok", "ret_err"})

\* a stop that ran concurrently with a start: both calls have returned and
\* the manager has left the transient states (with the state of the start
\* and the pid of the stop)
C29_Witness ==
    /\ \E t, u \in Threads :
          /\ call[t] = "stop" /\ pc[t] = "ret_ok"
          /\ call[u] \in {"start", "ensure"} /\ pc[u] = "ret_ok"
    /\ state = "Running" /\ child_pid = 0

\* thread t has forked a child in a start that has not yet ended
OwnsFork(t) ==
    \/ pc[t] \in {"start_store", "start_ready", "start_fail_kill", "start_fail_set"}
    \/ pc[t] \in {"wfr_poll", "wfr_probe"} /\ loc[t].waiter = "start"

\* the step on which start refuses the call of t because the manager is
\* being started or runs (manager.rs:148-152)
Refused(t) ==
    /\ pc[t] = "start" /\ pc'[t] = "ret_err"
    /\ state \in {"Starting", "Running"}

\* concurrent ensure_running calls never have two forks in progress
OneForkAtATime ==
    \A t, u \in Threads : (t # u /\ OwnsFork(t)) => ~OwnsFork(u)

\* C30: when several threads call ensure_running concurrently on a Stopped
\* manager, one child is forked, no caller receives an error merely because
\* another caller is already starting the helper, and a call returns Ok only
\* once the helper is ready.
C30_ConcurrentEnsureRunning ==
    /\ []OneForkAtATime
    /\ [][\A t \in Threads : ~Refused(t)]_vars
    /\ [][\A t \in Threads :
            (pc[t] # "ret_ok" /\ pc'[t] = "ret_ok")
               => (state' = "Running" \/ PingOk)]_vars

(***************************************************************************)
(* Part II: one control connection of the guest agent                      *)
(* (crates/smolvm-agent/src/main.rs, handle_connection)                    *)
(***************************************************************************)
\* the variables of the other parts
AgentOnly == UNCHANGED <<mgrVars, frVars, cdVars, stVars, apVars, ldVars, rfVars, fnCall>>

\* What the host can write in one frame.  An AgentRequest is abstracted to
\* its variant; "Store" stands for Pull, Query, ListImages, GarbageCollect,
\* PrepareOverlay, CleanupOverlay, FormatStorage and StorageStatus; "Run" is
\* Run with interactive and tty false, "RunI" is Run with either of them
\* true; tmo says whether the Run carries timeout_ms; "Bad" is a payload
\* serde_json does not parse as an AgentRequest.
Payloads ==
    {[kind |-> k, tmo |-> FALSE] : k \in {"Ping", "Store", "Shutdown", "Stdin", "Resize", "Bad"}}
        \cup {[kind |-> k, tmo |-> b] : k \in {"Run", "RunI"}, b \in BOOLEAN}

\* the exit codes a subject process ends with on its own: success, and the
\* code that is also reported for a timeout.  The code is seen by nobody
\* before the agent waits for the process: it is drawn at the wait.
ExitCodes == {0, 124}

\* An AgentResponse on the wire.  req is the index, on this connection, of
\* the request the agent was handling when it wrote the frame; code is the
\* Error code, or "shutdown" for Ok {"shutdown": true}; exit is the exit code.
Frame(k, ty, code, exit) == [req |-> k, type |-> ty, code |-> code, exit |-> exit]

\* send_response (agent main.rs:608-621) for each frame in turn, `?` on each:
\* a write on a connection the host has closed fails and ends
\* handle_connection with Err
Send(frames, next) ==
    IF hostOpen
    THEN out' = out \o frames /\ apc' = next
    ELSE apc' = "returned_err" /\ UNCHANGED out

\* the host writes one more frame (AgentClient::send, client.rs:1270-1280)
HostSend(r) ==
    /\ hostOpen
    /\ apc \notin {"returned_ok", "returned_err"}
    /\ Len(reqs) < MaxReqs
    /\ reqs' = Append(reqs, r)
    /\ UNCHANGED <<rd, out, apc, hostOpen, subject, written, expired, sigkills, syncs>>
    /\ AgentOnly

\* the host drops its AgentClient
HostClose ==
    /\ hostOpen
    /\ hostOpen' = FALSE
    /\ UNCHANGED <<reqs, rd, out, apc, subject, written, expired, sigkills, syncs>>
    /\ AgentOnly

\* agent main.rs:75-80: read_exact of the header meets end of file
AgentEof ==
    /\ apc = "read"
    /\ rd = Len(reqs)
    /\ ~hostOpen
    /\ apc' = "returned_ok"
    /\ UNCHANGED <<reqs, rd, out, hostOpen, subject, written, expired, sigkills, syncs>>
    /\ AgentOnly

\* the next frame in the stream, read whole (agent main.rs:74-90)
Readable(kinds) == apc = "read" /\ rd < Len(reqs) /\ reqs[rd + 1].kind \in kinds

\* a loop that skips an unparseable payload without a reply
AgentBad_NoReply ==
    /\ Readable({"Bad"})
    /\ rd' = rd + 1
    /\ UNCHANGED <<reqs, out, apc, hostOpen, subject, written, expired, sigkills, syncs>>
    /\ AgentOnly

\* a loop that replies to an unparseable payload and ends the connection
AgentBad_Return ==
    /\ Readable({"Bad"})
    /\ rd' = rd + 1
    /\ Send(<<Frame(rd + 1, "Error", "INVALID_REQUEST", 0)>>, "returned_ok")
    /\ UNCHANGED <<reqs, hostOpen, subject, written, expired, sigkills, syncs>>
    /\ AgentOnly

\* agent main.rs:93-103: the payload does not parse; reply and continue
AgentBad ==
    /\ Readable({"Bad"})
    /\ rd' = rd + 1
    /\ Send(<<Frame(rd + 1, "Error", "INVALID_REQUEST", 0)>>, "read")
    /\ UNCHANGED <<reqs, hostOpen, subject, written, expired, sigkills, syncs>>
    /\ AgentOnly

\* a handle_request in which Stdin/Resize fall into the Run { .. } arm
handle_request_StdinInternal(r, k) ==
    CASE r.kind = "Ping"     -> {Frame(k, "Pong", "", 0)}
      [] r.kind = "Store"    -> {Frame(k, "Ok", "", 0), Frame(k, "Error", "OP_FAILED", 0)}
      [] r.kind = "Shutdown" -> {Frame(k, "Ok", "shutdown", 0)}
      [] OTHER               -> {Frame(k, "Error", "INTERNAL_ERROR", 0)}

\* handle_request (agent main.rs:131-188): the responses it can return.  The
\* storage handlers return Ok or Error with their own code (PULL_FAILED,
\* NOT_FOUND, ...: "OP_FAILED"); Shutdown returns Ok {"shutdown": true}
\* without any other effect; the non-interactive Run arm is RunStart below.
handle_request(r, k) ==
    CASE r.kind = "Ping"     -> {Frame(k, "Pong", "", 0)}
      [] r.kind = "Store"    -> {Frame(k, "Ok", "", 0), Frame(k, "Error", "OP_FAILED", 0)}
      [] r.kind = "Shutdown" -> {Frame(k, "Ok", "shutdown", 0)}
      [] r.kind \in {"Stdin", "Resize"} -> {Frame(k, "Error", "INVALID_REQUEST", 0)}
      [] OTHER               -> {Frame(k, "Error", "INTERNAL_ERROR", 0)}

\* agent main.rs:115-126: handle_request, send_response, return after the
\* reply to Shutdown
AgentHandle ==
    /\ Readable({"Ping", "Store", "Shutdown", "Stdin", "Resize"})
    /\ rd' = rd + 1
    /\ \E f \in handle_request(reqs[rd + 1], rd + 1) :
         Send(<<f>>, IF f.type = "Ok" /\ f.code = "shutdown" THEN "returned_ok" ELSE "read")
    /\ UNCHANGED <<reqs, hostOpen, subject, written, expired, sigkills, syncs>>
    /\ AgentOnly

\* a subject process just spawned
Spawned ==
    /\ child' = "running" /\ pout' = 0 /\ perr' = 0
    /\ expired' = FALSE

\* the Child is dropped after it was waited for: no subject any more
Dropped ==
    /\ child' = "none" /\ pout' = 0 /\ perr' = 0
    /\ expired' = FALSE

(***************************************************************************)
(* Non-interactive Run: handle_run (agent main.rs:469-490),                *)
(* storage::run_command and run_with_crun (storage.rs:669-726, 842-907)    *)
(***************************************************************************)
\* run_command up to the spawn of crun: a failed validation, overlay, mount,
\* spec write or spawn is answered Error RUN_FAILED (main.rs:485-488)
RunStart ==
    /\ Readable({"Run"})
    /\ rd' = rd + 1
    /\ \/ /\ Send(<<Frame(rd + 1, "Error", "RUN_FAILED", 0)>>, "read")
          /\ UNCHANGED <<subject, expired>>
       \/ /\ Spawned
          /\ apc' = "run_wait"
          /\ UNCHANGED out
    /\ UNCHANGED <<reqs, hostOpen, written, sigkills, syncs>>
    /\ AgentOnly

\* crate::process::TIMEOUT_EXIT_CODE: "exit code 124 on expiry"
TIMEOUT_EXIT_CODE == 124

\* crate::process::wait_with_timeout_and_cleanup: the results it can return
\* now.  It returns Completed once the child has exited and, when timeout_ms
\* is given and has expired, runs the cleanup and returns TimedOut.
wait_with_timeout_and_cleanup(tmo) ==
    (IF child = "exited" THEN {"Completed"} ELSE {})
        \cup (IF tmo /\ expired THEN {"TimedOut"} ELSE {})

\* run_with_crun (storage.rs:869-906): the cleanup closure runs `crun kill
\* <id> SIGKILL` and `crun delete`; TimedOut becomes exit code
\* TIMEOUT_EXIT_CODE; handle_run wraps the result in Completed
RunWait ==
    /\ apc = "run_wait"
    /\ \E res \in wait_with_timeout_and_cleanup(reqs[rd].tmo) :
         IF res = "Completed"
         THEN /\ \E c \in ExitCodes : Send(<<Frame(rd, "Completed", "", c)>>, "read")
              /\ UNCHANGED sigkills
         ELSE /\ sigkills' = sigkills \cup {rd}
              /\ Send(<<Frame(rd, "Completed", "", TIMEOUT_EXIT_CODE)>>, "read")
    /\ Dropped
    /\ UNCHANGED <<reqs, rd, hostOpen, written, syncs>>
    /\ AgentOnly

(***************************************************************************)
(* Interactive Run: handle_interactive_run (agent main.rs:191-260) and     *)
(* run_interactive_loop (agent main.rs:312-445)                            *)
(***************************************************************************)
InSession == apc \in {"sess_wait", "sess_deadline", "sess_io"}

\* main.rs:108-112, 195-251: prepare_for_run, setup_mounts and the spawn can
\* each fail with its own Error and end the handler; else Started is sent
InteractiveStart ==
    /\ Readable({"RunI"})
    /\ rd' = rd + 1
    /\ \/ /\ \E code \in {"RUN_FAILED", "MOUNT_FAILED", "SPAWN_FAILED"} :
               Send(<<Frame(rd + 1, "Error", code, 0)>>, "read")
          /\ UNCHANGED <<subject, expired>>
       \/ /\ Spawned
          /\ Send(<<Frame(rd + 1, "Started", "", 0)>>, "sess_wait")
    /\ UNCHANGED <<reqs, hostOpen, written, sigkills, syncs>>
    /\ AgentOnly

Chunks(n, ty) == [i \in 1..n |-> Frame(rd, ty, "", 0)]

\* a loop that reports the exit before it drains the pipes
SessWait_ExitedFirst ==
    /\ apc = "sess_wait"
    /\ IF child = "exited"
       THEN /\ \E c \in ExitCodes :
                 Send(<<Frame(rd, "Exited", "", c)>>
                        \o Chunks(pout, "Stdout") \o Chunks(perr, "Stderr"), "read")
            /\ Dropped
       ELSE /\ apc' = "sess_deadline"
            /\ UNCHANGED <<out, subject, expired>>
    /\ UNCHANGED <<reqs, rd, hostOpen, written, sigkills, syncs>>
    /\ AgentOnly

\* main.rs:341-375, 257: try_wait; once the child has exited, drain stdout,
\* then stderr, return its code, and send Exited
SessWait ==
    /\ apc = "sess_wait"
    /\ IF child = "exited"
       THEN /\ \E c \in ExitCodes :
                 Send(Chunks(pout, "Stdout") \o Chunks(perr, "Stderr")
                        \o <<Frame(rd, "Exited", "", c)>>, "read")
            /\ Dropped
       ELSE /\ apc' = "sess_deadline"
            /\ UNCHANGED <<out, subject, expired>>
    /\ UNCHANGED <<reqs, rd, hostOpen, written, sigkills, syncs>>
    /\ AgentOnly

\* a loop that never looks at the deadline
SessDeadline_NoKill ==
    /\ apc = "sess_deadline"
    /\ apc' = "sess_io"
    /\ UNCHANGED <<reqs, rd, out, hostOpen, subject, written, expired, sigkills, syncs>>
    /\ AgentOnly

\* main.rs:378-385, 257: past the deadline: child.kill() (SIGKILL),
\* child.wait(), return 124, send Exited; what is left in the pipes is dropped
SessDeadline ==
    /\ apc = "sess_deadline"
    /\ IF reqs[rd].tmo /\ expired
       THEN /\ sigkills' = sigkills \cup {rd}
            /\ Dropped
            /\ Send(<<Frame(rd, "Exited", "", 124)>>, "read")
       ELSE /\ apc' = "sess_io"
            /\ UNCHANGED <<out, subject, expired, sigkills>>
    /\ UNCHANGED <<reqs, rd, hostOpen, written, syncs>>
    /\ AgentOnly

\* main.rs:388-444: one non-blocking read of stdout, one of stderr, each
\* chunk read is sent at once; try_read_request (main.rs:448-458) returns
\* Ok(None) without reading the stream; sleep 10 ms
SessIo ==
    /\ apc = "sess_io"
    /\ LET so == Chunks(IF pout > 0 THEN 1 ELSE 0, "Stdout")
           se == Chunks(IF perr > 0 THEN 1 ELSE 0, "Stderr")
       IN  /\ IF so \o se = <<>>
              THEN apc' = "sess_wait" /\ UNCHANGED out
              ELSE Send(so \o se, "sess_wait")
           /\ pout' = pout - Len(so)
           /\ perr' = perr - Len(se)
    /\ UNCHANGED <<reqs, rd, hostOpen, child, written, expired, sigkills, syncs>>
    /\ AgentOnly

(***************************************************************************)
(* The subject process and the clock                                       *)
(***************************************************************************)
\* the subject of an interactive Run writes a chunk to stdout or stderr (the
\* output of a non-interactive Run is captured whole and is not modelled)
ChildWrite(toStdout) ==
    /\ InSession
    /\ child = "running"
    /\ written < MaxChunks
    /\ written' = written + 1
    /\ IF toStdout
       THEN pout' = pout + 1 /\ UNCHANGED perr
       ELSE perr' = perr + 1 /\ UNCHANGED pout
    /\ UNCHANGED <<reqs, rd, out, apc, hostOpen, child, expired, sigkills, syncs>>
    /\ AgentOnly

\* the subject ends on its own
SubjectExit ==
    /\ child = "running"
    /\ child' = "exited"
    /\ UNCHANGED <<reqs, rd, out, apc, hostOpen, pout, perr, written, expired, sigkills, syncs>>
    /\ AgentOnly

\* timeout_ms elapses while the agent waits for the subject
DeadlinePasses ==
    /\ InSession \/ apc = "run_wait"
    /\ reqs[rd].tmo
    /\ ~expired
    /\ expired' = TRUE
    /\ UNCHANGED <<reqs, rd, out, apc, hostOpen, subject, written, sigkills, syncs>>
    /\ AgentOnly

AgentNext ==
    \/ \E r \in Payloads : HostSend(r)
    \/ HostClose
    \/ AgentEof
    \/ AgentBad
    \/ AgentHandle
    \/ RunStart
    \/ RunWait
    \/ InteractiveStart
    \/ SessWait
    \/ SessDeadline
    \/ SessIo
    \/ \E b \in BOOLEAN : ChildWrite(b)
    \/ SubjectExit
    \/ DeadlinePasses

AgentSpec == Init /\ [][AgentNext]_vars

(***************************************************************************)
(* The server loop of the agent (run_server, agent main.rs:48-66)          *)
(***************************************************************************)
\* main.rs:52-64: handle_connection has returned, with Ok or Err, and the
\* loop accepts the next connection.  What the host wrote on the old
\* connection and the agent never read is gone with it; reqs and out go on
\* as the record of what the agent has read and written since it started,
\* so that a frame's req is the number of its request among all of them.
Accept ==
    /\ apc \in {"returned_ok", "returned_err"}
    /\ reqs' = SubSeq(reqs, 1, rd)
    /\ hostOpen' = TRUE
    /\ apc' = "read"
    /\ UNCHANGED <<rd, out, subject, written, expired, sigkills, syncs>>
    /\ AgentOnly

ServerNext == AgentNext \/ Accept

ServerSpec == Init /\ [][ServerNext]_vars

(***************************************************************************)
(* The connection with a host that keeps to the protocol of interactive    *)
(* sessions: it sends Stdin and Resize (AgentClient::send_stdin,           *)
(* client.rs:1000-1004) while the agent is in a session, and nothing else  *)
(* then; outside a session it sends neither.                               *)
(***************************************************************************)
SessionNext ==
    /\ AgentNext
    /\ Len(reqs') > Len(reqs) =>
          (reqs'[Len(reqs')].kind \in {"Stdin", "Resize"} <=> InSession)

SessionSpec == Init /\ [][SessionNext]_vars

(***************************************************************************)
(* Claims about Part II                                                    *)
(***************************************************************************)
\* the frames the agent wrote while handling request k, in order
FramesOf(k) == SelectSeq(out, LAMBDA f : f.req = k)

\* the responses that end the handling of a request
Terminal(f) == f.type \in {"Pong", "Ok", "Error", "Completed", "Exited"}
Terminals == SelectSeq(out, Terminal)

\* the handling of request k is over and the connection did not fail in it
Done(k) == rd > k \/ (rd = k /\ apc \in {"read", "returned_ok"})

\* f is a response the protocol gives to request r
Answers(f, r) ==
    CASE r.kind = "Ping"     -> f.type = "Pong"
      [] r.kind = "Store"    -> f.type = "Ok" \/ (f.type = "Error" /\ f.code = "OP_FAILED")
      [] r.kind = "Shutdown" -> f.type = "Ok"
      [] r.kind = "Run"      -> f.type = "Completed" \/ (f.type = "Error" /\ f.code = "RUN_FAILED")
      [] r.kind = "RunI"     -> \/ f.type = "Exited"
                                \/ /\ f.type = "Error"
                                   /\ f.code \in {"RUN_FAILED", "MOUNT_FAILED", "SPAWN_FAILED"}
      [] OTHER               -> f.type = "Error" /\ f.code = "INVALID_REQUEST"

\* C4: every Ok reply to Shutdown is preceded by a completed sync(2).
C4_SyncBeforeShutdownReply ==
    \A i \in 1..Len(out) : (out[i].type = "Ok" /\ out[i].code = "shutdown") => syncs > 0

\* C6: the k-th terminal response on the connection was written while
\* handling the k-th request sent on it, and is a response to that request.
C6_ResponsesInRequestOrder ==
    \A i \in 1..Len(Terminals) :
        Terminals[i].req = i /\ Answers(Terminals[i], reqs[i])

C6_Witness ==
    /\ Len(Terminals) = MaxReqs
    /\ Terminals[1].type = "Exited"
    /\ \E i \in 2..MaxReqs : Terminals[i].type = "Pong"

\* a prefix of: one Error | Started (Stdout | Stderr)* Exited
SessionPrefix(s) ==
    \/ s = <<>>
    \/ Len(s) = 1 /\ s[1].type = "Error"
    \/ /\ s[1].type = "Started"
       /\ \A i \in 2..Len(s) :
            \/ s[i].type \in {"Stdout", "Stderr"}
            \/ i = Len(s) /\ s[i].type = "Exited"

SessionComplete(s) == s # <<>> /\ s[Len(s)].type \in {"Error", "Exited"}

\* C7: the frames of an interactive Run are a single Error, or Started, then
\* Stdout/Stderr frames, then one Exited as the last one; they are sent
\* without a frame of another request in between, the sequence is complete
\* once the session is over, and no other request gets session frames.
C7_InteractiveFrameGrammar ==
    /\ \A k \in 1..rd :
         reqs[k].kind = "RunI" =>
            /\ SessionPrefix(FramesOf(k))
            /\ Done(k) => SessionComplete(FramesOf(k))
    /\ \A i \in 1..Len(out) :
         /\ out[i].type \in {"Started", "Stdout", "Stderr", "Exited"}
               => reqs[out[i].req].kind = "RunI"
         /\ i > 1 => out[i - 1].req <= out[i].req

C7_Witness ==
    \E k \in 1..rd :
        /\ reqs[k].kind = "RunI"
        /\ Done(k)
        /\ Len(FramesOf(k)) = MaxChunks + 2
        /\ \E i, j \in 1..Len(out) : out[i].type = "Stdout" /\ out[j].type = "Stderr"

\* C8: a Stdin or Resize read by the connection loop, that is outside a
\* session, is answered with exactly Error INVALID_REQUEST, the agent then
\* reads on (it leaves the loop only at the host's end of file), and the
\* request after it gets its own normal response.
C8_StdinOutsideSession ==
    \A k \in 1..rd :
        reqs[k].kind \in {"Stdin", "Resize"} =>
            /\ Done(k) => FramesOf(k) = <<Frame(k, "Error", "INVALID_REQUEST", 0)>>
            /\ (rd = k /\ FramesOf(k) # <<>>) =>
                  apc = "read" \/ (apc = "returned_ok" /\ ~hostOpen)
            /\ (k < rd /\ Done(k + 1)) =>
                  /\ FramesOf(k + 1) # <<>>
                  /\ Answers(FramesOf(k + 1)[Len(FramesOf(k + 1))], reqs[k + 1])

C8_Witness ==
    \E k \in 1..rd :
        /\ reqs[k].kind \in {"Stdin", "Resize"}
        /\ FramesOf(k) = <<Frame(k, "Error", "INVALID_REQUEST", 0)>>
        /\ k < rd
        /\ FramesOf(k + 1) = <<Frame(k + 1, "Pong", "", 0)>>

\* the agent looks at the deadline of a request with timeout_ms, finds it
\* passed, and the subject is still running
TimeoutObserved ==
    /\ apc \in {"sess_deadline", "run_wait"}
    /\ apc' # apc
    /\ reqs[rd].tmo /\ expired /\ child = "running"

\* C9: when the guest finds timeout_ms expired with the subject still
\* running, it sends SIGKILL, the subject is dead, and the response is
\* Completed (non-interactive) or Exited (interactive) with exit code 124;
\* every response to a request whose subject was killed carries 124.
C9_TimeoutKillsAndReports124 ==
    /\ [][TimeoutObserved =>
            /\ rd \in sigkills'
            /\ child' # "running"
            /\ hostOpen => out' = Append(out,
                  Frame(rd, IF apc = "run_wait" THEN "Completed" ELSE "Exited", "", 124))]_vars
    /\ [](\A k \in sigkills :
            /\ reqs[k].tmo
            /\ \A i \in 1..Len(out) :
                 (out[i].req = k /\ Terminal(out[i])) => out[i].exit = 124)

C9_Witness ==
    \E k1, k2 \in sigkills :
        /\ \E i \in 1..Len(out) : out[i] = Frame(k1, "Exited", "", 124)
        /\ \E i \in 1..Len(out) : out[i] = Frame(k2, "Completed", "", 124)

\* the frame that acknowledges a Shutdown
ShutdownAck(f) == f.type = "Ok" /\ f.code = "shutdown"

\* C31: once the agent has acknowledged Shutdown it serves no further
\* request: no request it reads after the acknowledged Shutdown, on the same
\* or on a new connection, is a storage request or a Run.
C31_NothingServedAfterShutdown ==
    \A i \in 1..Len(out) :
        ShutdownAck(out[i]) =>
            \A k \in (out[i].req + 1)..rd : reqs[k].kind \notin {"Store", "Run", "RunI"}

\* the part of C31 about one connection: what follows an acknowledged
\* Shutdown on its connection is never read
NothingReadAfterShutdown ==
    [][\A i \in 1..Len(out) : (ShutdownAck(out[i]) /\ rd' # rd) => FALSE]_vars

\* every Stdin and Resize the host has sent and the agent has not read is
\* one of the session in progress
StdinConsumedBySession ==
    \A k \in (rd + 1)..Len(reqs) : reqs[k].kind \in {"Stdin", "Resize"} => InSession

\* no frame was written in reply to a Stdin or a Resize
StdinNeverAnswered ==
    \A i \in 1..Len(out) : reqs[out[i].req].kind \notin {"Stdin", "Resize"}

\* C32: with a host that sends Stdin and Resize during sessions only, these
\* frames are consumed by the session they were sent in, and none of them
\* gets a response frame of its own, during or after the session.
C32_SessionConsumesStdin ==
    /\ StdinConsumedBySession
    /\ StdinNeverAnswered

\* C33: a payload that does not parse as a request is answered with exactly
\* one Error frame with code INVALID_REQUEST, the agent does not leave the
\* connection loop because of it (it leaves only when the host has closed
\* the connection), and the request after it gets its own normal response.
C33_InvalidRequestAnswered ==
    \A k \in 1..rd :
        reqs[k].kind = "Bad" =>
            LET s == FramesOf(k)
            IN  /\ s \in {<<>>, <<Frame(k, "Error", "INVALID_REQUEST", 0)>>}
                /\ Done(k) => s # <<>>
                /\ rd = k => apc = "read" \/ (apc \in {"returned_ok", "returned_err"} /\ ~hostOpen)
                /\ (k < rd /\ Done(k + 1)) =>
                      /\ FramesOf(k + 1) # <<>>
                      /\ Answers(FramesOf(k + 1)[Len(FramesOf(k + 1))], reqs[k + 1])

C33_Witness ==
    \E k \in 1..rd :
        /\ reqs[k].kind = "Bad"
        /\ FramesOf(k) = <<Frame(k, "Error", "INVALID_REQUEST", 0)>>
        /\ k < rd
        /\ reqs[k + 1].kind = "Store"
        /\ FramesOf(k + 1) = <<Frame(k + 1, "Ok", "", 0)>>

(***************************************************************************)
(* Part III: the receivers of the framed protocol.  A frame is a 4-byte    *)
(* big-endian length followed by that many bytes of JSON.                  *)
(***************************************************************************)
FrameOnly == UNCHANGED <<mgrVars, agVars, cdVars, stVars, apVars, ldVars, rfVars, fnCall>>

\* smolvm-protocol lib.rs:25
MAX_FRAME_SIZE == 16 * 1024 * 1024

\* the buffer handle_connection starts with (agent main.rs:70, helper main.rs:67)
ServerBufLen == 64 * 1024

\* the byte values headers are built from: 16 MiB is <<1, 0, 0, 0>>; with a
\* first byte up to 127 the length stays within TLC's 32-bit integers
HeaderBytes == {0, 1, 127}
Headers == [1..4 -> HeaderBytes]

\* u32::from_be_bytes(header) as usize
from_be_bytes(h) == h[1] * 16777216 + h[2] * 65536 + h[3] * 256 + h[4]

Receivers ==
    {"agent", "helper", "HelperClient", "AgentClient.read_response",
     "AgentClient.receive", "decode_message"}

\* the 4 header bytes of a frame have been read by receiver rv
FrameArrives(rv, h) ==
    /\ frPc = "done"
    /\ frRecv' = rv
    /\ frHeader' = h
    /\ frPc' = "header"
    /\ frAlloc' = 0
    /\ frResult' = "none"
    /\ FrameOnly

\* what a receiver does with the header: it rejects the frame, or allocates
\* n bytes (0: it reads into memory it already has) and reads the payload
Reject == frResult' = "too_large" /\ frAlloc' = 0 /\ frPc' = "done"
ReadPayload(n) == frResult' = "read_payload" /\ frAlloc' = n /\ frPc' = "done"

At(rv) == frRecv = rv /\ frPc = "header"

\* agent main.rs:84-90: `if len > buf.len() { buf.resize(len, 0) }`, read_exact
AgentReceive ==
    /\ At("agent")
    /\ LET len == from_be_bytes(frHeader) IN
       ReadPayload(IF len > ServerBufLen THEN len ELSE 0)
    /\ UNCHANGED <<frRecv, frHeader>>
    /\ FrameOnly

\* helper main.rs:81-87: the same
HelperReceive ==
    /\ At("helper")
    /\ LET len == from_be_bytes(frHeader) IN
       ReadPayload(IF len > ServerBufLen THEN len ELSE 0)
    /\ UNCHANGED <<frRecv, frHeader>>
    /\ FrameOnly

\* helper/client.rs:62-68: `vec![0u8; len]`, read_exact
HelperClientReadResponse ==
    /\ At("HelperClient")
    /\ ReadPayload(from_be_bytes(frHeader))
    /\ UNCHANGED <<frRecv, frHeader>>
    /\ FrameOnly

\* agent/client.rs:315-332: the length is validated before the allocation
AgentClientReadResponse ==
    /\ At("AgentClient.read_response")
    /\ LET len == from_be_bytes(frHeader) IN
       IF len > MAX_FRAME_SIZE THEN Reject ELSE ReadPayload(len)
    /\ UNCHANGED <<frRecv, frHeader>>
    /\ FrameOnly

\* agent/client.rs:1286-1300
AgentClientReceive ==
    /\ At("AgentClient.receive")
    /\ LET len == from_be_bytes(frHeader) IN
       IF len > MAX_FRAME_SIZE THEN Reject ELSE ReadPayload(len)
    /\ UNCHANGED <<frRecv, frHeader>>
    /\ FrameOnly

\* smolvm-protocol lib.rs:324-337: decodes from a slice, allocates nothing
decode_message ==
    /\ At("decode_message")
    /\ LET len == from_be_bytes(frHeader) IN
       IF len > MAX_FRAME_SIZE THEN Reject ELSE ReadPayload(0)
    /\ UNCHANGED <<frRecv, frHeader>>
    /\ FrameOnly

FrameNext ==
    \/ \E rv \in Receivers, h \in Headers : FrameArrives(rv, h)
    \/ AgentReceive
    \/ HelperReceive
    \/ HelperClientReadResponse
    \/ AgentClientReadResponse
    \/ AgentClientReceive
    \/ decode_message

FrameSpec == Init /\ [][FrameNext]_vars

(***************************************************************************)
(* Claims about Part III                                                   *)
(***************************************************************************)
\* C10: every receiver rejects a frame whose declared length exceeds 16 MiB
\* with "frame too large", and has allocated no buffer of that length.
C10_ReceiversRejectOversizedFrames ==
    (frPc = "done" /\ frRecv # "none" /\ from_be_bytes(frHeader) > MAX_FRAME_SIZE)
        => (frResult = "too_large" /\ frAlloc = 0)

(***************************************************************************)
(* Part IV: the codec of the framed protocol (smolvm-protocol lib.rs).     *)
(* A Rust string is its text and its length in bytes; the text of a long   *)
(* string is abbreviated, its length is not.  A JSON document is the       *)
(* sequence of the <<key, value>> members serde_json writes, and its       *)
(* length is the number of bytes of that text.  Every length of the model  *)
(* is below 2^31, so that `json.len() as u32` (lib.rs:309) is the          *)
(* identity on it.                                                         *)
(***************************************************************************)
CodecOnly == UNCHANGED <<mgrVars, agVars, frVars, stVars, apVars, ldVars, rfVars, fnCall>>

Str(text, bytes) == [text |-> text, bytes |-> bytes]
Short(text) == Str(text, Len(text))
\* the strings of the model: two short ones, and one as long as the largest
\* frame
Strings == {Short("alpine:latest"), Short("wl-123"), Str("AAAA...", MAX_FRAME_SIZE)}

\* Option<T>
None == [some |-> FALSE]
Some(v) == [some |-> TRUE, v |-> v]
Option(S) == {None} \cup {Some(v) : v \in S}

\* serde_json::Value, and the JSON text of a value
JNull == [j |-> "null"]
JBool(b) == [j |-> "bool", b |-> b]
JNum(n) == [j |-> "number", n |-> n]
JStr(s) == [j |-> "string", s |-> s]
JObj(members) == [j |-> "object", members |-> members]
\* the values the agent and the helper put in Ok.data, and null
Values ==
    {JNull, JBool(TRUE), JBool(FALSE), JNum(42), JStr(Short("wl-123")),
     JObj(<<<<"shutdown", JBool(TRUE)>>>>)}

\* the values of the two message types of the helper protocol
\* (lib.rs:54-103, 106-141)
HelperRequest ==
    [ty : {"HelperRequest"},
     variant : {"Ping", "ListImages", "FormatStorage", "StorageStatus", "Shutdown"}]
    \cup [ty : {"HelperRequest"}, variant : {"Pull"}, image : Strings,
          platform : Option({Short("linux/arm64"), Short("linux/amd64")})]
    \cup [ty : {"HelperRequest"}, variant : {"Query"}, image : Strings]
    \cup [ty : {"HelperRequest"}, variant : {"GarbageCollect"}, dry_run : BOOLEAN]
    \cup [ty : {"HelperRequest"}, variant : {"PrepareOverlay"},
          image : Strings, workload_id : {Short("wl-123")}]
    \cup [ty : {"HelperRequest"}, variant : {"CleanupOverlay"},
          workload_id : Strings]
HelperResponse ==
    [ty : {"HelperResponse"}, variant : {"Ok"}, data : Option(Values)]
    \cup [ty : {"HelperResponse"}, variant : {"Pong"}, version : {1, 2}]
    \cup [ty : {"HelperResponse"}, variant : {"Progress"},
          message : Strings, percent : Option({33}),
          layer : Option({Short("alpine:latest")})]
    \cup [ty : {"HelperResponse"}, variant : {"Error"}, message : Strings,
          code : Option({Short("wl-123")})]

\* #[serde(rename_all = "snake_case")] (lib.rs:56, 107)
snake_case(variant) ==
    CASE variant = "Ping" -> Short("ping")
      [] variant = "Pull" -> Short("pull")
      [] variant = "Query" -> Short("query")
      [] variant = "ListImages" -> Short("list_images")
      [] variant = "GarbageCollect" -> Short("garbage_collect")
      [] variant = "PrepareOverlay" -> Short("prepare_overlay")
      [] variant = "CleanupOverlay" -> Short("cleanup_overlay")
      [] variant = "FormatStorage" -> Short("format_storage")
      [] variant = "StorageStatus" -> Short("storage_status")
      [] variant = "Shutdown" -> Short("shutdown")
      [] variant = "Ok" -> Short("ok")
      [] variant = "Pong" -> Short("pong")
      [] variant = "Progress" -> Short("progress")
      [] variant = "Error" -> Short("error")
Variants(T) ==
    IF T = "HelperRequest"
    THEN {"Ping", "Pull", "Query", "ListImages", "GarbageCollect", "PrepareOverlay",
          "CleanupOverlay", "FormatStorage", "StorageStatus", "Shutdown"}
    ELSE {"Ok", "Pong", "Progress", "Error"}
\* #[serde(tag = "method")] and #[serde(tag = "status")] (lib.rs:56, 107)
Tag(T) == IF T = "HelperRequest" THEN "method" ELSE "status"

\* Serialize for Option<T>: None is written as null
SerOption(o, ser(_)) == IF o.some THEN ser(o.v) ELSE JNull
SerString(s) == JStr(s)
SerNumber(n) == JNum(n)
SerValue(v) == v
\* a field with skip_serializing_if = "Option::is_none" (lib.rs:112, 129,
\* 132, 140)
SkipNone(key, o, ser(_)) == IF o.some THEN <<<<key, ser(o.v)>>>> ELSE <<>>

\* serde_json::to_vec of a message (lib.rs:308): the tag, then the fields of
\* the variant in the order of their declaration
to_vec(msg) ==
    <<<<Tag(msg.ty), JStr(snake_case(msg.variant))>>>> \o
    CASE msg.variant = "Pull" ->
            <<<<"image", JStr(msg.image)>>,
              <<"platform", SerOption(msg.platform, SerString)>>>>
      [] msg.variant = "Query" -> <<<<"image", JStr(msg.image)>>>>
      [] msg.variant = "GarbageCollect" -> <<<<"dry_run", JBool(msg.dry_run)>>>>
      [] msg.variant = "PrepareOverlay" ->
            <<<<"image", JStr(msg.image)>>, <<"workload_id", JStr(msg.workload_id)>>>>
      [] msg.variant = "CleanupOverlay" ->
            <<<<"workload_id", JStr(msg.workload_id)>>>>
      [] msg.variant = "Ok" -> SkipNone("data", msg.data, SerValue)
      [] msg.variant = "Pong" -> <<<<"version", JNum(msg.version)>>>>
      [] msg.variant = "Progress" ->
            <<<<"message", JStr(msg.message)>>>>
            \o SkipNone("percent", msg.percent, SerNumber)
            \o SkipNone("layer", msg.layer, SerString)
      [] msg.variant = "Error" ->
            <<<<"message", JStr(msg.message)>>>> \o SkipNone("code", msg.code, SerString)
      [] OTHER -> <<>>

\* the number of decimal digits of n
RECURSIVE Digits(_)
Digits(n) == IF n < 10 THEN 1 ELSE 1 + Digits(n \div 10)

\* the number of bytes of the JSON text of a value; the strings of the model
\* hold no character that JSON escapes
RECURSIVE json_len(_)
RECURSIVE members_len(_)
json_len(v) ==
    CASE v.j = "null" -> 4
      [] v.j = "bool" -> IF v.b THEN 4 ELSE 5
      [] v.j = "number" -> Digits(v.n)
      [] v.j = "string" -> v.s.bytes + 2
      [] v.j = "object" ->
            2 + members_len(v.members)
              + (IF Len(v.members) > 0 THEN Len(v.members) - 1 ELSE 0)
members_len(ms) ==
    IF ms = <<>> THEN 0
    ELSE Len(ms[1][1]) + 3 + json_len(ms[1][2]) + members_len(Tail(ms))

\* encode_message (lib.rs:307-316): the length of the JSON text, then the
\* text; it checks the length against nothing
encode_message(msg) ==
    LET json == to_vec(msg)
        len == json_len(JObj(json))
    IN  [header |-> len, payload |-> json, size |-> 4 + len]

Ok(v) == [ok |-> TRUE, v |-> v]
Err(e) == [ok |-> FALSE, err |-> e]

Has(json, key) == \E i \in 1..Len(json) : json[i][1] = key
Get(json, key) == json[CHOOSE i \in 1..Len(json) : json[i][1] = key][2]
\* Deserialize of a field of type T: a missing field or a value of another
\* JSON type is an error
DeString(json, key) ==
    IF Has(json, key) /\ Get(json, key).j = "string" THEN Ok(Get(json, key).s)
    ELSE Err("Json")
DeBool(json, key) ==
    IF Has(json, key) /\ Get(json, key).j = "bool" THEN Ok(Get(json, key).b)
    ELSE Err("Json")
DeNumber(json, key) ==
    IF Has(json, key) /\ Get(json, key).j = "number" THEN Ok(Get(json, key).n)
    ELSE Err("Json")
\* Deserialize of a field of type Option<T>: a missing field (serde's
\* missing_field for Option, and #[serde(default)]) and null are None, any
\* other value v is Some of T's reading of v; T is "string", "number" or
\* "value" (serde_json::Value, which reads every JSON value as itself)
DeOption(json, key, T) ==
    IF ~Has(json, key) \/ Get(json, key).j = "null" THEN Ok(None)
    ELSE IF T = "value" THEN Ok(Some(Get(json, key)))
    ELSE IF Get(json, key).j # T THEN Err("Json")
    ELSE IF T = "string" THEN Ok(Some(Get(json, key).s))
    ELSE Ok(Some(Get(json, key).n))

\* the variant with the fields fs (a function from field names to the
\* results of reading them): the first error, or the value
Build(T, variant, names, fs) ==
    IF \E n \in names : ~fs[n].ok THEN Err("Json")
    ELSE Ok([n \in names \cup {"ty", "variant"} |->
                IF n = "ty" THEN T ELSE IF n = "variant" THEN variant ELSE fs[n].v])

\* serde_json::from_slice::<T> (lib.rs:337)
from_slice(T, json) ==
    IF ~Has(json, Tag(T)) \/ Get(json, Tag(T)).j # "string" THEN Err("Json")
    ELSE LET tag == Get(json, Tag(T)).s
             vs == {v \in Variants(T) : snake_case(v) = tag}
         IN  IF vs = {} THEN Err("Json")
             ELSE LET variant == CHOOSE v \in vs : TRUE IN
                CASE variant = "Pull" ->
                        Build(T, variant, {"image", "platform"},
                              [image |-> DeString(json, "image"),
                               platform |-> DeOption(json, "platform", "string")])
                  [] variant = "Query" ->
                        Build(T, variant, {"image"}, [image |-> DeString(json, "image")])
                  [] variant = "GarbageCollect" ->
                        Build(T, variant, {"dry_run"},
                              [dry_run |-> DeBool(json, "dry_run")])
                  [] variant = "PrepareOverlay" ->
                        Build(T, variant, {"image", "workload_id"},
                              [image |-> DeString(json, "image"),
                               workload_id |-> DeString(json, "workload_id")])
                  [] variant = "CleanupOverlay" ->
                        Build(T, variant, {"workload_id"},
                              [workload_id |-> DeString(json, "workload_id")])
                  [] variant = "Ok" ->
                        Build(T, variant, {"data"},
                              [data |-> DeOption(json, "data", "value")])
                  [] variant = "Pong" ->
                        Build(T, variant, {"version"},
                              [version |-> DeNumber(json, "version")])
                  [] variant = "Progress" ->
                        Build(T, variant, {"message", "percent", "layer"},
                              [message |-> DeString(json, "message"),
                               percent |-> DeOption(json, "percent", "number"),
                               layer |-> DeOption(json, "layer", "string")])
                  [] variant = "Error" ->
                        Build(T, variant, {"message", "code"},
                              [message |-> DeString(json, "message"),
                               code |-> DeOption(json, "code", "string")])
                  [] OTHER -> Ok([ty |-> T, variant |-> variant])

\* decode_message::<T> (lib.rs:319-338)
decode_message_as(T, data) ==
    IF data.size < 4 THEN Err("TooShort")
    ELSE LET len == data.header IN
         IF len > MAX_FRAME_SIZE THEN Err("TooLarge")
         ELSE IF data.size < 4 + len THEN Err("Incomplete")
         ELSE from_slice(T, data.payload)

\* a sender encodes a message (helper client.rs:45, send_response of the
\* agent and of the helper)
CodecEncode ==
    /\ cdPc = "idle"
    /\ \E msg \in HelperRequest \cup HelperResponse :
          /\ cdMsg' = msg
          /\ cdWire' = encode_message(msg)
    /\ cdPc' = "encoded"
    /\ UNCHANGED cdOut
    /\ CodecOnly

\* the receiver decodes the bytes as the type the sender encoded
CodecDecode ==
    /\ cdPc = "encoded"
    /\ cdOut' = decode_message_as(cdMsg.ty, cdWire)
    /\ cdPc' = "decoded"
    /\ UNCHANGED <<cdMsg, cdWire>>
    /\ CodecOnly

\* the next message
CodecReset ==
    /\ cdPc = "decoded"
    /\ cdMsg' = "none" /\ cdWire' = "none" /\ cdOut' = "none" /\ cdPc' = "idle"
    /\ CodecOnly

CodecNext ==
    \/ CodecEncode
    \/ CodecDecode
    \/ CodecReset

CodecSpec == Init /\ [][CodecNext]_vars

(***************************************************************************)
(* Claims about Part IV                                                    *)
(***************************************************************************)
\* C11: for every request or response value V, decode_message of
\* encode_message(V) succeeds and returns a value equal to V.
C11_DecodeEncodeRoundTrip ==
    cdPc = "decoded" => cdOut = Ok(cdMsg)

(***************************************************************************)
(* Part V: the storage engine of the guest (smolvm-agent storage.rs).     *)
(* The agent serves one connection and one request at a time (agent        *)
(* main.rs:47-64), so each request is one step.  crane and tar can fail:   *)
(* the step of a Pull draws the place of the failure, if any.              *)
(***************************************************************************)
StorageOnly == UNCHANGED <<mgrVars, agVars, frVars, cdVars, apVars, ldVars, rfVars, fnCall>>

\* what the registry serves for each image: the digest of its config and
\* the digests of its layers, bottom first; the two images share a layer
Registry ==
    [image \in Refs |->
        CASE image = "lib/a:1" ->
               [config |-> "sha256:ca", layers |-> <<"sha256:l1", "sha256:l2">>]
          [] image = "b:1" ->
               [config |-> "sha256:cb", layers |-> <<"sha256:l2", "sha256:l3">>]
          [] image = "lib/a/1" ->
               [config |-> "sha256:cc", layers |-> <<"sha256:l3">>]]
Digests == {"sha256:l1", "sha256:l2", "sha256:l3"}

\* digest.strip_prefix("sha256:").unwrap_or(digest) (storage.rs:296-298,
\* 308, 487)
strip_prefix(digest) ==
    CASE digest = "sha256:l1" -> "l1"
      [] digest = "sha256:l2" -> "l2"
      [] digest = "sha256:l3" -> "l3"
      [] digest = "sha256:ca" -> "ca"
      [] digest = "sha256:cb" -> "cb"
      [] digest = "sha256:cc" -> "cc"
      [] OTHER -> digest
\* root.join(LAYERS_DIR).join(layer_id) (storage.rs:309): the name of the
\* directory of a layer
layer_dir(layer_digest) == strip_prefix(layer_digest)
Range(seq) == {seq[i] : i \in 1..Len(seq)}

ImageInfo(image, manifest) ==
    [reference |-> image, digest |-> manifest.config, layers |-> manifest.layers]

\* query_image (storage.rs:373-435): Ok(None) without a manifest file, an
\* error without the config file, else the ImageInfo read from the two; the
\* layer directories are read for their size only, and a missing one counts
\* as 0 bytes
query_image(image) ==
    LET held == stManifests[sanitize_image_name(image)] IN
    IF held = "none" THEN [res |-> "not_found", info |-> "none"]
    ELSE IF strip_prefix(Registry[held].config) \notin stConfigs
    THEN [res |-> "io_error", info |-> "none"]
    ELSE [res |-> "ok", info |-> ImageInfo(image, Registry[held])]

\* the loop over the layers of pull_image without the test
\* `layer_dir.exists()`: every layer is extracted again
RECURSIVE ExtractLayers_Always(_, _, _, _)
ExtractLayers_Always(layers, have, touched, fail) ==
    IF layers = <<>> THEN [ok |-> TRUE, dirs |-> have, touched |-> touched]
    ELSE LET dir == layer_dir(Head(layers)) IN
         IF Head(layers) = fail
         THEN [ok |-> FALSE, dirs |-> have \ {dir}, touched |-> touched \cup {dir}]
         ELSE ExtractLayers_Always(Tail(layers), have \cup {dir}, touched \cup {dir}, fail)

\* the loop over the layers in pull_image (storage.rs:306-351): have are
\* the directories under layers/, fail is the digest whose extraction fails
\* ("none": no extraction fails).  A layer whose directory exists is
\* skipped; the directory of the failing layer is created and removed again
RECURSIVE ExtractLayers(_, _, _, _)
ExtractLayers(layers, have, touched, fail) ==
    IF layers = <<>> THEN [ok |-> TRUE, dirs |-> have, touched |-> touched]
    ELSE LET dir == layer_dir(Head(layers)) IN
         IF dir \in have THEN ExtractLayers(Tail(layers), have, touched, fail)
         ELSE IF Head(layers) = fail
         THEN [ok |-> FALSE, dirs |-> have, touched |-> touched \cup {dir}]
         ELSE ExtractLayers(Tail(layers), have \cup {dir}, touched \cup {dir}, fail)

\* the next request is `next`
Serve(next) ==
    /\ stLast' = next
    /\ stAgain' = (/\ stLast.res = "ok"
                   /\ <<stLast.op, stLast.image, stLast.arg>>
                        = <<next.op, next.image, next.arg>>)

\* pull_image (storage.rs:224-370); fail is "none", "manifest" (crane
\* manifest fails), "config" (crane config fails) or the digest of the layer
\* whose extraction fails
pull_image(image, fail) ==
    LET cached == query_image(image)
        manifest == Registry[image]
        key == sanitize_image_name(image)
        ex == ExtractLayers(manifest.layers, stLayers, {}, fail)
    IN
    IF cached.res = "ok"
    THEN /\ Serve(Served("Pull", image, "none", "ok", cached.info, FALSE))
         /\ stTouched' = {}
         /\ UNCHANGED stDisk
    ELSE IF fail = "manifest"
    THEN /\ Serve(Served("Pull", image, "none", "manifest_failed", "none", TRUE))
         /\ stTouched' = {}
         /\ UNCHANGED stDisk
    ELSE IF fail = "config"
    THEN /\ stManifests' = [stManifests EXCEPT ![key] = image]
         /\ Serve(Served("Pull", image, "none", "config_failed", "none", TRUE))
         /\ stTouched' = {}
         /\ UNCHANGED <<stConfigs, stLayers, stOverlay>>
    ELSE /\ stManifests' = [stManifests EXCEPT ![key] = image]
         /\ stConfigs' = stConfigs \cup {strip_prefix(manifest.config)}
         /\ stLayers' = ex.dirs
         /\ stTouched' = ex.touched
         /\ Serve(Served("Pull", image, "none",
                         IF ex.ok THEN "ok" ELSE "extract_failed",
                         IF ex.ok THEN ImageInfo(image, manifest) ELSE fail, TRUE))
         /\ UNCHANGED stOverlay

\* handle_pull (agent main.rs:493-505): the AgentResponse it returns for the
\* Pull that storage::pull_image has served
handle_pull(served) ==
    IF served.res = "ok"
    THEN [type |-> "Ok", data |-> served.info]
    ELSE [type |-> "Error", code |-> "PULL_FAILED"]

\* the frames the agent writes for a Pull: handle_request returns the
\* response of handle_pull and handle_connection sends it with one
\* send_response (agent main.rs:115-117); pull_image has no access to the
\* stream
PullFrames(served) == <<handle_pull(served)>>

\* handle_pull (agent main.rs:493-505)
Pull ==
    /\ \E image \in Images, fail \in {"none", "manifest", "config"} \cup Digests :
          pull_image(image, fail)
    /\ UNCHANGED stPrepared
    /\ StorageOnly

\* handle_query (agent main.rs:508-522)
Query ==
    /\ \E image \in Images :
          Serve(Served("Query", image, "none", query_image(image).res,
                       query_image(image).info, FALSE))
    /\ stTouched' = {}
    /\ UNCHANGED <<stDisk, stPrepared>>
    /\ StorageOnly

\* the layer directories the first manifest file refers to
referenced_layers_FirstManifest ==
    LET ks == {k \in Keys : stManifests[k] # "none"} IN
    IF ks = {} THEN {}
    ELSE {layer_dir(d) :
            d \in Range(Registry[stManifests[CHOOSE k \in ks : TRUE]].layers)}

\* the layer directories the manifest files refer to (storage.rs:476-493)
referenced_layers ==
    UNION {{layer_dir(d) : d \in Range(Registry[stManifests[k]].layers)} :
             k \in {k \in Keys : stManifests[k] # "none"}}

\* a garbage_collect whose dry run removes the directories too
garbage_collect_DryRunRemoves(dry_run) ==
    LET unreferenced == stLayers \ referenced_layers IN
    /\ stLayers' = stLayers \ unreferenced
    /\ stTouched' = unreferenced
    /\ Serve(Served("GarbageCollect", "none", dry_run, "ok",
                    [freed_bytes |-> Cardinality(unreferenced), dry_run |-> dry_run],
                    FALSE))
    /\ UNCHANGED <<stManifests, stConfigs, stOverlay, stPrepared>>

\* garbage_collect (storage.rs:470-517) and handle_gc (agent main.rs:538-551);
\* every layer directory counts as one byte
garbage_collect(dry_run) ==
    LET unreferenced == stLayers \ referenced_layers IN
    /\ stLayers' = IF dry_run THEN stLayers ELSE stLayers \ unreferenced
    /\ stTouched' = IF dry_run THEN {} ELSE unreferenced
    /\ Serve(Served("GarbageCollect", "none", dry_run, "ok",
                    [freed_bytes |-> Cardinality(unreferenced), dry_run |-> dry_run],
                    FALSE))
    /\ UNCHANGED <<stManifests, stConfigs, stOverlay, stPrepared>>

GarbageCollect ==
    /\ \E dry_run \in BOOLEAN : garbage_collect(dry_run)
    /\ StorageOnly

\* a manifest file is deleted by hand between two requests
ManifestDeleted ==
    /\ \E k \in Keys :
          /\ stManifests[k] # "none"
          /\ stManifests' = [stManifests EXCEPT ![k] = "none"]
    /\ stLast' = NoRequest /\ stAgain' = FALSE /\ stTouched' = {}
    /\ UNCHANGED <<stConfigs, stLayers, stOverlay, stPrepared>>
    /\ StorageOnly

OverlayInfo(workload_id) ==
    [rootfs_path |-> <<"overlays", workload_id, "merged">>,
     upper_path |-> <<"overlays", workload_id, "upper">>,
     work_path |-> <<"overlays", workload_id, "work">>]

\* mount -t overlay on merged (storage.rs:584-594).  On a second mount with
\* the same upperdir and workdir the kernel either refuses (EBUSY, index=on)
\* or mounts on top of the first (index=off): both are drawn
mount(workload_id) ==
    LET o == stOverlay[workload_id] IN
    IF o.mounts = 0 THEN {"mounted"}
    ELSE IF o.mounts < MaxMounts THEN {"mounted", "busy"}
    ELSE {"busy"}

\* prepare_overlay (storage.rs:520-638) and handle_prepare_overlay (agent
\* main.rs:554-566)
prepare_overlay(image, workload_id) ==
    LET found == query_image(image)
        o == stOverlay[workload_id]
        created == [stOverlay EXCEPT ![workload_id].dir = TRUE]
    IN
    /\ stPrepared' = stPrepared \cup {workload_id}
    /\ stTouched' = {}
    /\ UNCHANGED <<stManifests, stConfigs, stLayers>>
    /\ IF found.res # "ok"
       THEN /\ Serve(Served("PrepareOverlay", image, workload_id,
                            IF found.res = "not_found" THEN "image_not_found"
                            ELSE found.res, "none", FALSE))
            /\ UNCHANGED stOverlay
       ELSE IF \E d \in Range(found.info.layers) : layer_dir(d) \notin stLayers
       THEN /\ stOverlay' = created
            /\ Serve(Served("PrepareOverlay", image, workload_id,
                            "layer_missing", "none", FALSE))
       ELSE \E outcome \in mount(workload_id) :
              IF outcome = "busy"
              THEN /\ stOverlay' = created
                   /\ Serve(Served("PrepareOverlay", image, workload_id,
                                   "mount_failed", "none", FALSE))
              ELSE /\ stOverlay' =
                        [created EXCEPT ![workload_id].mounts = o.mounts + 1]
                   /\ Serve(Served("PrepareOverlay", image, workload_id, "ok",
                                   OverlayInfo(workload_id), FALSE))

PrepareOverlay ==
    /\ \E image \in Images, workload_id \in Wids : prepare_overlay(image, workload_id)
    /\ StorageOnly

\* remove_dir_all(overlay_root) (storage.rs:653): fails on a directory that
\* holds a mount point
remove_dir_all(o) == IF o.mounts > 0 THEN "busy" ELSE "removed"

\* cleanup_overlay without the test `overlay_root.exists()`: remove_dir_all
\* of a missing directory is an error
cleanup_overlay_Unguarded(workload_id) ==
    LET o == stOverlay[workload_id]
        unmounted == [o EXCEPT !.mounts = IF o.dir /\ o.mounts > 0
                                           THEN o.mounts - 1 ELSE o.mounts]
        removal == IF unmounted.dir THEN remove_dir_all(unmounted) ELSE "missing"
    IN
    /\ stOverlay' = [stOverlay EXCEPT ![workload_id] =
                        IF removal = "removed"
                        THEN [dir |-> FALSE, mounts |-> 0] ELSE unmounted]
    /\ Serve(Served("CleanupOverlay", "none", workload_id,
                    IF removal = "removed" THEN "ok" ELSE "io_error",
                    "none", FALSE))
    /\ stTouched' = {}
    /\ UNCHANGED <<stManifests, stConfigs, stLayers, stPrepared>>

\* cleanup_overlay (storage.rs:641-658) and handle_cleanup_overlay (agent
\* main.rs:569-579): umount takes the topmost mount off merged, and its
\* result is ignored
cleanup_overlay(workload_id) ==
    LET o == stOverlay[workload_id]
        unmounted == [o EXCEPT !.mounts = IF o.dir /\ o.mounts > 0
                                           THEN o.mounts - 1 ELSE o.mounts]
        removal == IF unmounted.dir THEN remove_dir_all(unmounted) ELSE "absent"
    IN
    /\ stOverlay' = [stOverlay EXCEPT ![workload_id] =
                        IF removal = "removed"
                        THEN [dir |-> FALSE, mounts |-> 0] ELSE unmounted]
    /\ Serve(Served("CleanupOverlay", "none", workload_id,
                    IF removal \in {"removed", "absent"} THEN "ok" ELSE "io_error",
                    "none", FALSE))
    /\ stTouched' = {}
    /\ UNCHANGED <<stManifests, stConfigs, stLayers, stPrepared>>

CleanupOverlay ==
    /\ \E workload_id \in Wids : cleanup_overlay(workload_id)
    /\ StorageOnly

(***************************************************************************)
(* Run on the sticky overlay of the image (storage::run_command,           *)
(* handle_run, agent main.rs:469-490)                                      *)
(***************************************************************************)
\* format!("persistent-{}", sanitize_image_name(image)) (storage.rs:682, 732)
persistent(image) ==
    CASE sanitize_image_name(image) = "lib_a_1" -> "persistent-lib_a_1"
      [] sanitize_image_name(image) = "b_1" -> "persistent-b_1"

\* the references whose Run is in the model: those of the sticky overlay
\* persistent-lib_a_1
RunImages == {image \in Refs : persistent(image) \in Wids}

\* prepare_overlay (storage.rs:520-638) as get_or_create_overlay calls it:
\* the ways it can end.  res is "ok" or the error, o is overlays/{wid} after
\* it, layers are the lowerdirs of the overlay it mounted
overlay_attempts(image, workload_id) ==
    LET found == query_image(image)
        o == stOverlay[workload_id]
        created == [o EXCEPT !.dir = TRUE]
        Attempt(res, after, layers) ==
            [res |-> res, o |-> after, layers |-> layers,
             prepared |-> TRUE, mounted |-> res = "ok"]
    IN
    IF found.res # "ok"
    THEN {Attempt(IF found.res = "not_found" THEN "image_not_found" ELSE found.res,
                  o, <<>>)}
    ELSE IF \E d \in Range(found.info.layers) : layer_dir(d) \notin stLayers
    THEN {Attempt("layer_missing", created, <<>>)}
    ELSE {IF outcome = "busy"
          THEN Attempt("mount_failed", created, <<>>)
          ELSE Attempt("ok", [created EXCEPT !.mounts = o.mounts + 1],
                       found.info.layers) :
            outcome \in mount(workload_id)}

\* a get_or_create_overlay that never looks for the mounted overlay
get_or_create_overlay_NoReuse(image, workload_id) ==
    overlay_attempts(image, workload_id)

\* get_or_create_overlay (storage.rs:813-830): an overlay mounted on
\* overlays/{wid}/merged is returned as it is, without a look at the image
get_or_create_overlay(image, workload_id) ==
    LET o == stOverlay[workload_id] IN
    IF o.dir /\ o.mounts > 0
    THEN {[res |-> "ok", o |-> o, layers |-> <<>>,
           prepared |-> FALSE, mounted |-> FALSE]}
    ELSE overlay_attempts(image, workload_id)

\* run_command (storage.rs:669-726) for a valid reference: the overlay, then
\* the volume mounts, the OCI spec and crun, each of which can fail; info
\* tells whether this Run read the image (queried), whether it mounted the
\* overlay, and with which layers
run_command(image) ==
    LET workload_id == persistent(image) IN
    \E a \in get_or_create_overlay(image, workload_id) :
       /\ stOverlay' = [stOverlay EXCEPT ![workload_id] = a.o]
       /\ stPrepared' = IF a.prepared THEN stPrepared \cup {workload_id}
                        ELSE stPrepared
       /\ \E res \in (IF a.res = "ok" THEN {"ok", "run_failed"} ELSE {a.res}) :
             Serve(Served("Run", image, workload_id, res,
                          [queried |-> a.prepared, mounted |-> a.mounted,
                           layers |-> a.layers], FALSE))
       /\ stTouched' = {}
       /\ UNCHANGED <<stManifests, stConfigs, stLayers>>

\* handle_run (agent main.rs:469-490)
Run ==
    /\ \E image \in RunImages : run_command(image)
    /\ StorageOnly

\* handle_pull for the reference that has the file name of lib/a:1
PullSameKey ==
    /\ \E fail \in {"none", "manifest", "config"} \cup Digests :
          pull_image("lib/a/1", fail)
    /\ UNCHANGED stPrepared
    /\ StorageOnly

StorageNext ==
    \/ Pull
    \/ Query
    \/ GarbageCollect
    \/ ManifestDeleted
    \/ PrepareOverlay
    \/ CleanupOverlay

StorageSpec == Init /\ [][StorageNext]_vars

\* the storage engine with Run, and with the three references
RunNext ==
    \/ StorageNext
    \/ PullSameKey
    \/ Run

RunSpec == Init /\ [][RunNext]_vars

(***************************************************************************)
(* Claims about Part V                                                     *)
(***************************************************************************)
\* the last request found its image present: a Query that returned an
\* ImageInfo, or a Pull that returned one without going to the registry
ConsideredPresent ==
    /\ stLast.res = "ok"
    /\ stLast.op = "Query" \/ (stLast.op = "Pull" /\ ~stLast.net)

\* the manifest of the image exists and each layer it lists has a directory
ManifestAndLayersExist(image) ==
    LET held == stManifests[sanitize_image_name(image)] IN
    /\ held # "none"
    /\ \A d \in Range(Registry[held].layers) : layer_dir(d) \in stLayers

\* C12: an image is considered present (Query returns its ImageInfo, Pull
\* returns the cached ImageInfo without network I/O) only if its manifest
\* exists and every layer the manifest lists has a directory under layers/.
C12_PresentOnlyWithAllLayers ==
    ConsideredPresent => ManifestAndLayersExist(stLast.image)

\* the last request was a Pull that failed in the extraction of a layer
ExtractionFailed == stLast.op = "Pull" /\ stLast.res = "extract_failed"

\* C13: when the extraction of a layer fails during a Pull, the directory of
\* that layer is removed and the Pull returns an error; a Query of the same
\* reference that follows reports not found, and a Pull that follows does not
\* return a cached result.
C13_FailedExtractionLeavesImageAbsent ==
    /\ [](ExtractionFailed => layer_dir(stLast.info) \notin stLayers)
    /\ [][(ExtractionFailed /\ stLast'.image = stLast.image) =>
            /\ stLast'.op = "Query" => stLast'.res = "not_found"
            /\ stLast'.op = "Pull" => (stLast'.net \/ stLast'.res # "ok")]_vars

\* C14: each layer digest has at most one directory under layers/, and a
\* Pull leaves every layer directory that existed before it in place and
\* unwritten.
C14_LayersExtractedOnce ==
    /\ [](\A d \in Digests :
            Cardinality({dir \in stLayers : dir = layer_dir(d)}) <= 1)
    /\ [][stLast'.op = "Pull" =>
            \A dir \in stLayers : dir \in stLayers' /\ dir \notin stTouched']_vars

\* a Pull of an image extracted one layer and found the other one, shared
\* with the image pulled before, already extracted
C14_Witness ==
    /\ stLast.op = "Pull" /\ stLast.res = "ok" /\ stLast.net
    /\ \E d \in Range(stLast.info.layers) : layer_dir(d) \in stTouched
    /\ \E d \in Range(stLast.info.layers) :
          layer_dir(d) \in stLayers \ stTouched

\* some manifest file lists the layer of directory dir
Referenced(dir) ==
    \E k \in Keys :
       /\ stManifests[k] # "none"
       /\ \E i \in 1..Len(Registry[stManifests[k]].layers) :
             layer_dir(Registry[stManifests[k]].layers[i]) = dir

\* C15: a GarbageCollect that is not a dry run removes exactly the layer
\* directories no manifest refers to: the referenced ones stay, the others
\* are removed.
C15_GcRemovesExactlyUnreferenced ==
    [][(stLast'.op = "GarbageCollect" /\ stLast'.arg = FALSE) =>
          /\ stManifests' = stManifests
          /\ stLayers' = {dir \in stLayers : Referenced(dir)}]_vars

\* a GarbageCollect removed the layers of a deleted manifest and kept the
\* layer this manifest shared with the one that remains
C15_Witness ==
    /\ stLast.op = "GarbageCollect" /\ stLast.arg = FALSE
    /\ stLast.info.freed_bytes > 0
    /\ \E k \in Keys : stManifests[k] = "none"
    /\ \E k \in Keys : stManifests[k] # "none"
    /\ layer_dir("sha256:l2") \in stLayers

\* C16: a PrepareOverlay(image, wid) that repeats the PrepareOverlay before
\* it returns the same OverlayInfo, and exactly one overlay is mounted on
\* overlays/{wid}/merged.
C16_PrepareOverlayTwice ==
    (stLast.op = "PrepareOverlay" /\ stAgain) =>
        /\ stLast.res = "ok"
        /\ stLast.info = OverlayInfo(stLast.arg)
        /\ stOverlay[stLast.arg].mounts = 1

\* C17: CleanupOverlay(wid) returns Ok when PrepareOverlay(wid) was never
\* called; after it returned Ok, overlays/{wid} does not exist; and a
\* CleanupOverlay(wid) that repeats one that returned Ok returns Ok.
C17_CleanupOverlayIdempotent ==
    stLast.op = "CleanupOverlay" =>
        /\ stLast.arg \notin stPrepared => stLast.res = "ok"
        /\ stLast.res = "ok" =>
              stOverlay[stLast.arg] = [dir |-> FALSE, mounts |-> 0]
        /\ stAgain => stLast.res = "ok"

\* a CleanupOverlay that repeats one that returned Ok, for a workload id
\* PrepareOverlay was called for
C17_Witness ==
    /\ stLast.op = "CleanupOverlay" /\ stAgain
    /\ stLast.arg \in stPrepared

\* the last request was a Pull that went to the registry and succeeded: every
\* layer of the manifest was extracted or found extracted
PulledFromRegistry == stLast.op = "Pull" /\ stLast.net /\ stLast.res = "ok"

\* the frames of a Pull end with its only Ok or Error
PullEndsWithOneTerminal ==
    stLast.op = "Pull" =>
        LET frames == PullFrames(stLast) IN
        /\ frames[Len(frames)].type \in {"Ok", "Error"}
        /\ \A i \in 1..(Len(frames) - 1) : frames[i].type \notin {"Ok", "Error"}

\* C34: for a Pull of an image of N layers the agent writes a Progress frame
\* at each layer boundary, the i-th with percent = i * 100 / N and the digest
\* of the i-th layer, and then the single terminal Ok or Error frame.
C34_PullProgressFrames ==
    /\ PullEndsWithOneTerminal
    /\ PulledFromRegistry =>
          LET frames == PullFrames(stLast)
              layers == Registry[stLast.image].layers
              n == Len(layers)
          IN  /\ Len(frames) = n + 1
              /\ \A i \in 1..n :
                    /\ frames[i].type = "Progress"
                    /\ frames[i].percent = (i * 100) \div n
                    /\ frames[i].layer = layers[i]

\* the last request was GarbageCollect with this dry_run
Collected(served, dry_run) == served.op = "GarbageCollect" /\ served.arg = dry_run

\* C35: a GarbageCollect with dry_run = true leaves the storage disk as it
\* is, and the GarbageCollect without dry_run that follows it reports the
\* byte total the dry run returned as freed.
C35_DryRunGc ==
    /\ [][Collected(stLast', TRUE) => UNCHANGED stDisk]_vars
    /\ [][(Collected(stLast, TRUE) /\ Collected(stLast', FALSE)) =>
            /\ stLast'.res = "ok"
            /\ stLast'.info.freed_bytes = stLast.info.freed_bytes
            /\ stLayers' = stLayers \ stTouched'
            /\ Cardinality(stTouched') = stLast.info.freed_bytes]_vars

\* a dry run has found layer directories to remove and has left them
C35_Witness ==
    /\ Collected(stLast, TRUE)
    /\ stLast.info.freed_bytes > 0
    /\ Cardinality(stLayers \ referenced_layers) = stLast.info.freed_bytes

\* C36: a Run that repeats the Run before it, which succeeded, uses the
\* sticky overlay persistent-{sanitized image} as it found it: it mounts
\* nothing, reads no manifest and does not go to the registry.
C36_SecondRunReusesOverlay ==
    [][(stLast'.op = "Run" /\ stAgain') =>
          /\ stLast'.arg = persistent(stLast'.image)
          /\ stOverlay' = stOverlay
          /\ stManifests' = stManifests
          /\ ~stLast'.info.queried /\ ~stLast'.info.mounted /\ ~stLast'.net]_vars

\* a second Run of the image has succeeded on the overlay the first mounted
C36_Witness ==
    /\ stLast.op = "Run" /\ stAgain /\ stLast.res = "ok"
    /\ stOverlay[stLast.arg].mounts = 1

\* a manifest file that holds the manifest of one reference never comes to
\* hold the manifest of another
ManifestNeverOverwritten ==
    [][\A k \in Keys :
         (stManifests[k] # "none" /\ stManifests'[k] # "none")
            => stManifests'[k] = stManifests[k]]_vars

\* a Pull or a Query that succeeds returns the config digest of its own
\* reference
OwnManifest ==
    (stLast.op \in {"Pull", "Query"} /\ stLast.res = "ok")
        => stLast.info.digest = Registry[stLast.image].config

\* a Run that mounts its overlay mounts the layers of its own reference
OwnLayers ==
    (stLast.op = "Run" /\ stLast.info.mounted)
        => stLast.info.layers = Registry[stLast.image].layers

\* the Runs of two references that follow each other use two workspaces
OwnWorkspace ==
    [][(stLast.op = "Run" /\ stLast'.op = "Run" /\ stLast'.image # stLast.image)
          => stLast'.arg # stLast.arg]_vars

\* C37: two different image references never share a manifest file or a
\* sticky overlay: a Pull never replaces the manifest another reference has
\* cached, a Pull or Query returns the image of its own reference, and a Run
\* never mounts the layers, or uses the workspace, of another reference.
C37_ReferencesShareNothing ==
    /\ ManifestNeverOverwritten
    /\ []OwnManifest
    /\ []OwnLayers
    /\ OwnWorkspace

(***************************************************************************)
(* Part VI: the registry of sandboxes of the HTTP server (api/state.rs).   *)
(* sandboxes is a parking_lot::RwLock: a writer sets the writer bit as     *)
(* soon as no other writer has it and then waits for the readers to        *)
(* leave; while the bit is set, a new reader waits.  A read section that   *)
(* cannot block inside (get_sandbox, the test of register_sandbox) is one  *)
(* step; so is a write section, once the lock is held.  Each request runs  *)
(* once.                                                                   *)
(***************************************************************************)
ApiOnly == UNCHANGED <<mgrVars, agVars, frVars, cdVars, stVars, ldVars, rfVars, fnCall>>

\* request r moves on: u is the record of the changed fields
Step(r, u) ==
    apReq' = [apReq EXCEPT ![r] = [f \in DOMAIN NoCall |->
                                     IF f \in DOMAIN u THEN u[f] ELSE apReq[r][f]]]
At2(r, kind, at) == apReq[r].kind = kind /\ apReq[r].pc = at
\* sandboxes.read() can be taken
CanRead == apWriter = "none"

\* the requests that can be a stop request
StopRequests == {"r3", "r4"}
\* the requests the clients make: two exec, one list, create or delete, and
\* one create or delete
Kinds(r) ==
    CASE r \in {"r1", "r2"} -> {"exec"}
      [] r = "r3" -> {"list", "create", "delete"}
      [] r = "r4" -> {"create", "delete"}

\* a request arrives: exec (POST /sandboxes/:id/exec), list (GET /sandboxes),
\* create (POST /sandboxes) or delete (DELETE /sandboxes/:id)
Arrive(r) ==
    /\ apReq[r].kind = "none"
    /\ \E kind \in Kinds(r), arg \in Names :
          /\ kind = "list" => arg = "a"
          /\ Step(r, [kind |-> kind, arg |-> IF kind = "list" THEN "none" ELSE arg,
                      pc |-> CASE kind = "exec" -> "get"
                               [] kind = "list" -> "read"
                               [] kind = "create" -> "check"
                               [] kind = "delete" -> "write"])
    /\ UNCHANGED <<apSandboxes, apConfig, apReaders, apWriter, apMutex, apStopped>>
    /\ ApiOnly

\* get_sandbox (api/state.rs:161-167), called at exec.rs:32
get_sandbox(r) ==
    /\ At2(r, "exec", "get")
    /\ CanRead
    /\ IF apSandboxes[apReq[r].arg] = "none"
       THEN Step(r, [pc |-> "done", res |-> "not_found"])
       ELSE Step(r, [pc |-> "lock1", entry |-> apSandboxes[apReq[r].arg]])
    /\ UNCHANGED <<apSandboxes, apConfig, apReaders, apWriter, apMutex, apStopped>>
    /\ ApiOnly

\* exec_command: entry_clone.lock() (exec.rs:38 and 67)
ExecLock(r) ==
    /\ apReq[r].kind = "exec" /\ apReq[r].pc \in {"lock1", "lock2"}
    /\ apMutex[apReq[r].entry] = "none"
    /\ apMutex' = [apMutex EXCEPT ![apReq[r].entry] = r]
    /\ Step(r, [pc |-> IF apReq[r].pc = "lock1" THEN "ensure_running" ELSE "vm_exec"])
    /\ UNCHANGED <<apSandboxes, apConfig, apReaders, apWriter, apStopped>>
    /\ ApiOnly

\* exec_command: the end of the first blocking task (exec.rs:37-49), in
\* which ensure_running_with_full_config succeeded or failed
ExecEnsured(r) ==
    /\ At2(r, "exec", "ensure_running")
    /\ apMutex' = [apMutex EXCEPT ![apReq[r].entry] = "none"]
    /\ \E ok \in BOOLEAN :
          IF ok THEN /\ Step(r, [pc |-> "lock2"])
                     /\ apStopped' = apStopped \ {apReq[r].entry}
          ELSE /\ Step(r, [pc |-> "done", entry |-> "none", res |-> "bad_request"])
               /\ UNCHANGED apStopped
    /\ UNCHANGED <<apSandboxes, apConfig, apReaders, apWriter>>
    /\ ApiOnly

\* exec_command: the end of the second blocking task (exec.rs:66-72), which
\* connected to the control socket and ran the command, or failed to connect
\* to a VM that is stopped
ExecDone(r) ==
    /\ At2(r, "exec", "vm_exec")
    /\ apMutex' = [apMutex EXCEPT ![apReq[r].entry] = "none"]
    /\ Step(r, [pc |-> "done", entry |-> "none",
                 res |-> IF apReq[r].entry \in apStopped THEN "internal" ELSE "ok"])
    /\ UNCHANGED <<apSandboxes, apConfig, apReaders, apWriter, apStopped>>
    /\ ApiOnly

\* list_sandboxes (api/state.rs:204-205): sandboxes.read(), held to the end
ListRead(r) ==
    /\ At2(r, "list", "read")
    /\ CanRead
    /\ apReaders' = apReaders \cup {r}
    /\ Step(r, [pc |-> "iter"])
    /\ UNCHANGED <<apSandboxes, apConfig, apWriter, apMutex, apStopped>>
    /\ ApiOnly

\* the names list_sandboxes has yet to visit
Unvisited(r) == {n \in Names : apSandboxes[n] # "none"} \ apReq[r].visited

\* list_sandboxes (api/state.rs:206-232): entry.lock() of the next entry of
\* the map (in the map's order, which is any), its reading, and the unlock
ListVisit(r) ==
    /\ At2(r, "list", "iter")
    /\ \E n \in Unvisited(r) :
          /\ apMutex[apSandboxes[n]] = "none"
          /\ Step(r, [visited |-> apReq[r].visited \cup {n}])
    /\ UNCHANGED <<apSandboxes, apConfig, apReaders, apWriter, apMutex, apStopped>>
    /\ ApiOnly

\* list_sandboxes returns and drops the read lock (api/state.rs:233-234)
ListDone(r) ==
    /\ At2(r, "list", "iter")
    /\ Unvisited(r) = {}
    /\ apReaders' = apReaders \ {r}
    /\ Step(r, [pc |-> "done", visited |-> {}, res |-> "ok"])
    /\ UNCHANGED <<apSandboxes, apConfig, apWriter, apMutex, apStopped>>
    /\ ApiOnly

\* register_sandbox (api/state.rs:119-128): the test under sandboxes.read()
RegisterCheck(r) ==
    /\ At2(r, "create", "check")
    /\ CanRead
    /\ IF apSandboxes[apReq[r].arg] # "none"
       THEN Step(r, [pc |-> "done", res |-> "conflict"])
       ELSE Step(r, [pc |-> "persist"])
    /\ UNCHANGED <<apSandboxes, apConfig, apReaders, apWriter, apMutex, apStopped>>
    /\ ApiOnly

\* register_sandbox (api/state.rs:130-145): the record is inserted in
\* config.vms and saved, under config.write()
RegisterPersist(r) ==
    /\ At2(r, "create", "persist")
    /\ apConfig' = [apConfig EXCEPT ![apReq[r].arg] = r]
    /\ Step(r, [pc |-> "write"])
    /\ UNCHANGED <<apSandboxes, apReaders, apWriter, apMutex, apStopped>>
    /\ ApiOnly

\* sandboxes.write() (api/state.rs:148 and 173): the writer bit is taken
WriteLock(r) ==
    /\ apReq[r].kind \in {"create", "delete"} /\ apReq[r].pc = "write"
    /\ apWriter = "none"
    /\ apWriter' = r
    /\ Step(r, [pc |-> "locked"])
    /\ UNCHANGED <<apSandboxes, apConfig, apReaders, apMutex, apStopped>>
    /\ ApiOnly

\* register_sandbox (api/state.rs:148-158): the readers have left, the entry
\* is inserted and the lock dropped
RegisterInsert(r) ==
    /\ At2(r, "create", "locked")
    /\ apWriter = r /\ apReaders = {}
    /\ apSandboxes' = [apSandboxes EXCEPT ![apReq[r].arg] = r]
    /\ apWriter' = "none"
    /\ Step(r, [pc |-> "done", res |-> "ok"])
    /\ UNCHANGED <<apConfig, apReaders, apMutex, apStopped>>
    /\ ApiOnly

\* remove_sandbox (api/state.rs:170-178): the readers have left, the entry is
\* removed and the lock dropped
RemoveEntry(r) ==
    /\ At2(r, "delete", "locked")
    /\ apWriter = r /\ apReaders = {}
    /\ apWriter' = "none"
    /\ IF apSandboxes[apReq[r].arg] = "none"
       THEN /\ Step(r, [pc |-> "done", res |-> "not_found"])
            /\ UNCHANGED apSandboxes
       ELSE /\ apSandboxes' = [apSandboxes EXCEPT ![apReq[r].arg] = "none"]
            /\ Step(r, [pc |-> "unpersist"])
    /\ UNCHANGED <<apConfig, apReaders, apMutex, apStopped>>
    /\ ApiOnly

\* remove_sandbox (api/state.rs:180-189): the record is removed from
\* config.vms and the file saved
RemovePersist(r) ==
    /\ At2(r, "delete", "unpersist")
    /\ apConfig' = [apConfig EXCEPT ![apReq[r].arg] = "none"]
    /\ Step(r, [pc |-> "done", res |-> "ok"])
    /\ UNCHANGED <<apSandboxes, apReaders, apWriter, apMutex, apStopped>>
    /\ ApiOnly

ApiNext ==
    \E r \in Requests :
       \/ Arrive(r)
       \/ get_sandbox(r)
       \/ ExecLock(r)
       \/ ExecEnsured(r)
       \/ ExecDone(r)
       \/ ListRead(r)
       \/ ListVisit(r)
       \/ ListDone(r)
       \/ RegisterCheck(r)
       \/ RegisterPersist(r)
       \/ WriteLock(r)
       \/ RegisterInsert(r)
       \/ RemoveEntry(r)
       \/ RemovePersist(r)

ApiSpec == Init /\ [][ApiNext]_vars

\* a stop request arrives (POST /sandboxes/:id/stop, api/mod.rs:47)
ArriveStop(r) ==
    /\ r \in StopRequests
    /\ apReq[r].kind = "none"
    /\ \E arg \in Names : Step(r, [kind |-> "stop", arg |-> arg, pc |-> "get"])
    /\ UNCHANGED <<apSandboxes, apConfig, apReaders, apWriter, apMutex, apStopped>>
    /\ ApiOnly

\* stop_sandbox: get_sandbox (api/state.rs:161-167) clones the entry of the
\* name under sandboxes.read()
StopGet(r) ==
    /\ At2(r, "stop", "get")
    /\ CanRead
    /\ IF apSandboxes[apReq[r].arg] = "none"
       THEN Step(r, [pc |-> "done", res |-> "not_found"])
       ELSE Step(r, [pc |-> "lock1", entry |-> apSandboxes[apReq[r].arg]])
    /\ UNCHANGED <<apSandboxes, apConfig, apReaders, apWriter, apMutex, apStopped>>
    /\ ApiOnly

\* stop_sandbox: the manager is reached through the mutex of the entry
\* (Arc<Mutex<SandboxEntry>>, api/state.rs:15); with the mutex held
\* AgentManager::stop stops the VM, and the mutex is released
StopVm(r) ==
    /\ At2(r, "stop", "lock1")
    /\ apMutex[apReq[r].entry] = "none"
    /\ apStopped' = apStopped \cup {apReq[r].entry}
    /\ Step(r, [pc |-> "done", entry |-> "none", res |-> "ok"])
    /\ UNCHANGED <<apSandboxes, apConfig, apReaders, apWriter, apMutex>>
    /\ ApiOnly

\* the server with stop requests among the others
StopNext ==
    \/ ApiNext
    \/ \E r \in Requests : ArriveStop(r) \/ StopGet(r) \/ StopVm(r)
StopSpec == Init /\ [][StopNext]_vars

(***************************************************************************)
(* Claims about Part VI                                                    *)
(***************************************************************************)
\* request r is inside one of the two blocking tasks of exec_command: it
\* holds the mutex of an entry and uses the entry's manager and its control
\* connection
InCritical(r) ==
    apReq[r].kind = "exec" /\ apReq[r].pc \in {"ensure_running", "vm_exec"}

\* no two requests are in the critical section of the same entry
EntryMutexExclusive ==
    \A r1, r2 \in Requests :
       (r1 # r2 /\ InCritical(r1) /\ InCritical(r2))
          => apReq[r1].entry # apReq[r2].entry

\* C18: no two requests to the same sandbox are at once in their critical
\* sections, in which they use the sandbox's manager and control connection.
C18_OneRequestDrivesASandbox ==
    \A r1, r2 \in Requests :
       (r1 # r2 /\ InCritical(r1) /\ InCritical(r2))
          => apReq[r1].arg # apReq[r2].arg

\* the requests r cannot take its next step without: the holder of the lock
\* or mutex it is waiting for
WaitsOn(r) ==
    LET c == apReq[r] IN
    CASE c.pc \in {"get", "read", "check", "write"} ->
            IF apWriter # "none" THEN {apWriter} ELSE {}
      [] c.pc \in {"lock1", "lock2"} ->
            IF apMutex[c.entry] # "none" THEN {apMutex[c.entry]} ELSE {}
      [] c.pc = "iter" ->
            IF Unvisited(r) # {}
               /\ \A n \in Unvisited(r) : apMutex[apSandboxes[n]] # "none"
            THEN {apMutex[apSandboxes[n]] : n \in Unvisited(r)} ELSE {}
      [] c.pc = "locked" -> apReaders
      [] OTHER -> {}
Waited(S) == S \cup UNION {WaitsOn(q) : q \in S}
\* the requests r is waiting for, directly or through others
WaitsFor(r) == Waited(Waited(Waited(WaitsOn(r))))

\* C19: a request addressed to a sandbox never waits for a request that is
\* in flight on a different sandbox, whatever list, create and delete
\* requests are pending.
C19_DifferentSandboxesInParallel ==
    \A r \in Requests :
       apReq[r].kind = "exec" =>
          \A q \in WaitsFor(r) : InCritical(q) => apReq[q].arg = apReq[r].arg

\* C20: a registration under a name that exists is rejected with a conflict
\* and changes neither the entry nor the record of that name; of two create
\* requests for one name (which no request deletes) at most one succeeds.
C20_NameIsPrimaryKey ==
    /\ [](\A r1, r2 \in Requests :
            (/\ r1 # r2
             /\ apReq[r1].kind = "create" /\ apReq[r2].kind = "create"
             /\ apReq[r1].arg = apReq[r2].arg
             /\ \A q \in Requests :
                   apReq[q].kind = "delete" => apReq[q].arg # apReq[r1].arg)
               => ~(apReq[r1].res = "ok" /\ apReq[r2].res = "ok"))
    /\ [][\A r \in Requests :
            /\ (apReq[r].res = "none" /\ apReq'[r].res = "conflict") =>
                  /\ apSandboxes[apReq[r].arg] # "none"
                  /\ UNCHANGED <<apSandboxes, apConfig>>
            /\ (apReq[r].kind = "create" /\ apReq[r].res = "none"
                /\ apReq'[r].res = "ok") =>
                  apSandboxes[apReq[r].arg] = "none"]_vars

\* no call of register_sandbox or remove_sandbox is in progress
RegistryQuiet ==
    \A r \in Requests :
       apReq[r].kind \in {"create", "delete"} => apReq[r].pc = "done"
\* the names of the map of sandboxes, and the names of config.vms as saved
MapNames == {n \in Names : apSandboxes[n] # "none"}
PersistedNames == {n \in Names : apConfig[n] # "none"}

\* C38: when every register_sandbox and remove_sandbox call has returned,
\* the names in the map of sandboxes are the names in the persisted registry.
C38_MapMatchesRegistry ==
    RegistryQuiet => MapNames = PersistedNames

\* request r has passed its ensure-running step and has not finished its
\* use of the control socket
ReadyToUse(r) ==
    apReq[r].kind = "exec" /\ apReq[r].pc \in {"lock2", "vm_exec"}

\* C39: an exec or run request that has passed its ensure-running step acts
\* on a sandbox that is still running: the VM of its entry is not stopped
\* between the readiness check and the use of the control socket.
C39_RunningFromReadyToUse ==
    \A r \in Requests : ReadyToUse(r) => apReq[r].entry \notin apStopped

\* while a request holds the mutex of an entry no stop of that entry takes
\* effect
StopRespectsMutex ==
    [][\A e \in Entries :
          (e \in apStopped' /\ e \notin apStopped) => apMutex[e] = "none"]_vars

(***************************************************************************)
(* Part VII: the startup of the HTTP server (api/state.rs:33-108)          *)
(***************************************************************************)
LoadOnly == UNCHANGED <<mgrVars, agVars, frVars, cdVars, stVars, apVars, rfVars, fnCall>>

\* the pids a record can hold
LdPids == {11, 12}
\* RecordState (config.rs:11-24) as the commands that write records use it
RecordState == {"created", "running", "stopped"}
\* VmRecord (config.rs): the fields the startup reads; pid 0 is None.  A
\* record is written as running together with the pid of its process
\* (update_sandbox_state, api/state.rs:191-200) and without a pid otherwise
VmRecord ==
    [state : {"created", "stopped"}, pid : {0}]
       \cup [state : {"running"}, pid : LdPids]

\* VmRecord::is_process_alive (config.rs:217-224): kill(pid, 0) == 0
is_process_alive(record) == record.pid # 0 /\ record.pid \in ldAlive

\* AgentManager::try_connect_existing_with_pid: the control socket of the
\* sandbox is opened and answers a ping
try_connect_existing_with_pid(name) == name \in ldPing

\* ApiState::new (api/state.rs:33-40): SmolvmConfig::load reads the registry
\* file; the processes and sockets of the host are as the previous server
\* left them
ApiStateNew ==
    /\ ldPc = "new"
    /\ \E vms \in [DOMAIN ldVms -> VmRecord \cup {NoRecord}],
          alive \in SUBSET LdPids, ping \in SUBSET DOMAIN ldVms :
          /\ \A n, m \in DOMAIN ldVms :
                (n # m /\ vms[n] # NoRecord /\ vms[m] # NoRecord /\ vms[n].pid # 0)
                   => vms[n].pid # vms[m].pid
          /\ ldVms' = vms /\ ldAlive' = alive /\ ldPing' = ping
    /\ ldPc' = "loading"
    /\ UNCHANGED <<ldSandboxes, ldVisited>>
    /\ LoadOnly

\* load_persisted_sandboxes (api/state.rs:44-108), one turn of its loop over
\* config.vms, in the order of the HashMap: the record is skipped when its
\* process is dead or its socket does not answer, and has an entry inserted
\* otherwise.  config is held by read() and is not written
LoadRecord ==
    /\ ldPc = "loading"
    /\ \E name \in DOMAIN ldVms \ ldVisited :
          /\ ldVms[name] # NoRecord
          /\ ldSandboxes' =
                IF is_process_alive(ldVms[name])
                      /\ try_connect_existing_with_pid(name)
                THEN ldSandboxes \cup {name} ELSE ldSandboxes
          /\ ldVisited' = ldVisited \cup {name}
    /\ UNCHANGED <<ldVms, ldAlive, ldPing, ldPc>>
    /\ LoadOnly

\* load_persisted_sandboxes: the loop is over, loaded is returned
LoadReturn ==
    /\ ldPc = "loading"
    /\ \A name \in DOMAIN ldVms : ldVms[name] # NoRecord => name \in ldVisited
    /\ ldPc' = "loaded"
    /\ UNCHANGED <<ldVms, ldAlive, ldPing, ldSandboxes, ldVisited>>
    /\ LoadOnly

LoadNext == ApiStateNew \/ LoadRecord \/ LoadReturn
LoadSpec == Init /\ [][LoadNext]_vars

\* a persisted sandbox answers both probes of the startup
AnswersProbes(name) ==
    /\ ldVms[name].pid # 0 /\ ldVms[name].pid \in ldAlive
    /\ name \in ldPing

\* the first half of C21: once the startup is over, a persisted sandbox has
\* an entry in memory exactly when it answers both probes, and every record
\* is still in the file
LoadedIffProbesAnswer ==
    ldPc = "loaded" =>
       /\ ldSandboxes \subseteq {n \in DOMAIN ldVms : ldVms[n] # NoRecord}
       /\ \A n \in DOMAIN ldVms :
             ldVms[n] # NoRecord => (n \in ldSandboxes <=> AnswersProbes(n))

\* C21: on server startup a persisted sandbox has an entry in memory if and
\* only if its pid answers signal 0 and its control socket answers a ping;
\* every record that fails either probe is kept in the registry file with
\* its state set to stopped.
C21_StartupReattach ==
    ldPc = "loaded" =>
       /\ LoadedIffProbesAnswer
       /\ \A n \in DOMAIN ldVms :
             (ldVms[n] # NoRecord /\ ~AnswersProbes(n)) =>
                ldVms[n].state = "stopped"

(***************************************************************************)
(* Part VIII: pure functions                                               *)
(***************************************************************************)
FnOnly == UNCHANGED <<mgrVars, agVars, frVars, cdVars, stVars, apVars, ldVars,
                       rfVars>>
\* one call: the function, its argument and what it returned
Called(fn, arg, res) == [fn |-> fn, arg |-> arg, res |-> res]

(***************************************************************************)
(* The status code of a response (api/error.rs, api/mod.rs,                *)
(* api/handlers/exec.rs)                                                   *)
(***************************************************************************)
\* ApiError (api/error.rs:12-23), without the messages
ApiError == {"NotFound", "Conflict", "BadRequest", "Timeout", "Internal"}

\* ApiError::into_response (api/error.rs:32-53): the status of the response
into_response(err) ==
    CASE err = "NotFound" -> 404
      [] err = "Conflict" -> 409
      [] err = "BadRequest" -> 400
      [] err = "Timeout" -> 408
      [] err = "Internal" -> 500

\* what happens while one exec or run request is served: the body has an
\* empty command, the sandbox is registered, a mount of the entry fails
\* validate_mount, the blocking task panics (JoinError), the sandbox fails
\* to boot, the connection or the command fails on the agent's side, the
\* handler outlasts the deadline of the route
ExecInputs ==
    [empty : BOOLEAN, registered : BOOLEAN, mounts_valid : BOOLEAN,
     join_error : BOOLEAN, boots : BOOLEAN, exec_ok : BOOLEAN,
     late : BOOLEAN]

\* exec_command and run_command (api/handlers/exec.rs:23-78, 83-154): "Ok"
\* or the ApiError returned
exec_command(in) ==
    IF in.empty THEN "BadRequest"                      \* exec.rs:28-30
    ELSE IF ~in.registered THEN "NotFound"             \* exec.rs:32
    ELSE IF in.join_error THEN "Internal"              \* exec.rs:49 (.await?)
    ELSE IF ~in.mounts_valid THEN "BadRequest"         \* exec.rs:41, 50
    ELSE IF ~in.boots THEN "BadRequest"                \* exec.rs:45-47, 50
    ELSE IF ~in.exec_ok THEN "Internal"                \* exec.rs:67-71
    ELSE "Ok"

\* the route of exec and run (api/mod.rs:42-81): the handler under
\* TimeoutLayer, which answers 408 when the handler has not finished in time
exec_route(in) ==
    IF in.late THEN 408
    ELSE IF exec_command(in) = "Ok" THEN 200
    ELSE into_response(exec_command(in))

\* one exec or run request is served
ServeExec ==
    /\ \E in \in ExecInputs :
          fnCall' = Called("exec_route", in, exec_route(in))
    /\ FnOnly

\* the first thing that goes wrong while the request is served, in the order
\* in which the handler meets them
FirstFailure(in) ==
    CASE in.late -> "deadline"
      [] ~in.late /\ in.empty -> "malformed"
      [] ~in.late /\ ~in.empty /\ ~in.registered -> "missing"
      [] ~in.late /\ ~in.empty /\ in.registered /\ in.join_error -> "other"
      [] ~in.late /\ ~in.empty /\ in.registered /\ ~in.join_error
            /\ ~in.mounts_valid -> "malformed"
      [] ~in.late /\ ~in.empty /\ in.registered /\ ~in.join_error
            /\ in.mounts_valid /\ ~(in.boots /\ in.exec_ok) -> "other"
      [] OTHER -> "none"

\* C22: an error response has status 404 for a missing sandbox, 400 only
\* for malformed input, 408 for an exceeded deadline and 500 for every other
\* failure, such as a sandbox that fails to boot while it serves exec or run
\* (409, for state conflicts and duplicate names, does not occur on this
\* route).
C22_StatusCodes ==
    fnCall.fn = "exec_route" =>
       fnCall.res = CASE FirstFailure(fnCall.arg) = "missing" -> 404
                      [] FirstFailure(fnCall.arg) = "malformed" -> 400
                      [] FirstFailure(fnCall.arg) = "deadline" -> 408
                      [] FirstFailure(fnCall.arg) = "other" -> 500
                      [] FirstFailure(fnCall.arg) = "none" -> 200

(***************************************************************************)
(* The exit code of a finished process (vm/state.rs, agent main.rs)        *)
(***************************************************************************)
\* the exit codes and the signals of the model
Codes == {0, 1, 2, 124, 137, 255}
Signals == {2, 9, 11, 15}

\* ExitReason (vm/state.rs:80-113), without the details of the last two
ExitReason ==
    [kind : {"Exited"}, n : Codes] \cup [kind : {"Signaled"}, n : Signals]
       \cup [kind : {"Timeout", "OomKilled", "DiskFull", "VmCrash",
                     "ProtocolError"}, n : {0}]

\* ExitReason::exit_code (vm/state.rs:118-128)
exit_code(reason) ==
    CASE reason.kind = "Exited" -> reason.n
      [] reason.kind = "Signaled" -> 128 + reason.n
      [] reason.kind = "Timeout" -> 124
      [] reason.kind = "OomKilled" -> 137
      [] reason.kind = "DiskFull" -> 200
      [] reason.kind = "VmCrash" -> 1
      [] reason.kind = "ProtocolError" -> 1

\* std::process::ExitStatus of a child that was waited for: it called
\* exit(n) or was killed by signal n
ExitStatus == [kind : {"Exited"}, n : Codes] \cup [kind : {"Signaled"}, n : Signals]

\* ExitStatus::code(): None for a child killed by a signal
code(status) == IF status.kind = "Exited" THEN Some(status.n) ELSE None

\* how an interactive run ends: try_wait returns the status of the child, or
\* the deadline is found passed while the child still runs
Endings == ExitStatus \cup [kind : {"Timeout"}, n : {0}]

\* run_interactive_loop (agent main.rs:312-445): the exit code it returns,
\* which handle_interactive_run sends in Exited (main.rs:254-257)
run_interactive_loop(ending) ==
    IF ending.kind = "Timeout" THEN 124                \* main.rs:377-384
    ELSE IF code(ending).some THEN code(ending).v      \* main.rs:372
    ELSE 0 - 1                                         \* unwrap_or(-1)

\* ExitReason::exit_code is applied to a reason
ReasonExitCode ==
    /\ \E reason \in ExitReason :
          fnCall' = Called("exit_code", reason, exit_code(reason))
    /\ FnOnly

\* an interactive run ends and its exit code is reported
InteractiveExit ==
    /\ \E ending \in Endings :
          fnCall' = Called("run_interactive_loop", ending,
                           run_interactive_loop(ending))
    /\ FnOnly

\* the exit code the claim gives for a way of finishing
NativeCode(end) ==
    CASE end.kind = "Timeout" -> 124
      [] end.kind = "Exited" -> end.n
      [] end.kind = "Signaled" -> 128 + end.n
      [] end.kind = "OomKilled" -> 128 + 9

\* the host's map of exit reasons follows the claim
ExitReasonCodes ==
    (/\ fnCall.fn = "exit_code"
     /\ fnCall.arg.kind \in {"Timeout", "Exited", "Signaled", "OomKilled"})
       => fnCall.res = NativeCode(fnCall.arg)

\* C23: the exit code reported for a finished process is 124 for a timeout,
\* the child's own exit code for a normal exit, and 128 + the signal number
\* (137 for SIGKILL, as on OOM) for a process killed by a signal.
C23_ExitCodeMap ==
    /\ ExitReasonCodes
    /\ fnCall.fn = "run_interactive_loop" => fnCall.res = NativeCode(fnCall.arg)

(***************************************************************************)
(* The sanitizers (vm/config.rs, agent storage.rs).  A string is the       *)
(* sequence of its chars.                                                  *)
(***************************************************************************)
\* the chars of the model: ASCII letters and digits, the dash and the
\* underscore, ASCII punctuation, and U+00E9 (a letter, two bytes in UTF-8)
AsciiAlphanumeric == {"a", "Z", "7", "v", "m", "f"}
Punctuation == {"/", ":", "@", "."}
Chars == AsciiAlphanumeric \cup {"-", "_"} \cup Punctuation \cup {"U+00E9"}

\* char::is_alphanumeric: the Unicode property Alphabetic or a number
is_alphanumeric(c) == c \in AsciiAlphanumeric \cup {"U+00E9"}

\* the chars of a string that satisfy keep, in their order
RECURSIVE filter(_, _)
filter(s, keep) ==
    IF s = <<>> THEN <<>>
    ELSE (IF Head(s) \in keep THEN <<Head(s)>> ELSE <<>>) \o filter(Tail(s), keep)

\* Iterator::take(n)
take(s, n) == IF Len(s) <= n THEN s ELSE SubSeq(s, 1, n)

\* the longest id VmId::new returns for an input with a valid char
VmIdMax == 64

\* VmId::generate (vm/config.rs:33-41): "vm-" and the time in hexadecimal
generate(ts) == <<"v", "m", "-">> \o ts

\* VmId::new (vm/config.rs:18-31); ts is the time at the call
VmId_new(id, ts) ==
    LET sanitized == take(filter(id, {c \in Chars : is_alphanumeric(c)
                                                      \/ c = "-" \/ c = "_"}),
                          VmIdMax)
    IN  IF sanitized = <<>> THEN generate(ts) ELSE sanitized

\* str::replace with a set of chars as the pattern
RECURSIVE replace(_, _, _)
replace(s, pattern, to) ==
    IF s = <<>> THEN <<>>
    ELSE (IF Head(s) \in pattern THEN to ELSE <<Head(s)>>)
            \o replace(Tail(s), pattern, to)

\* sanitize_image_name (storage.rs:943-945) on any string
sanitize_image_ref(image) == replace(image, {"/", ":", "@"}, <<"_">>)

\* n times the char c
Repeat(c, n) == [i \in 1..n |-> c]
\* the strings handed to the sanitizers: the short ones, and long ones whose
\* chars are kept, dropped, or both
ShortStrings == UNION {[1..n -> Chars \ {"v", "m", "f"}] : n \in 0..MaxLen}
LongStrings ==
    {Repeat(c, n) : c \in {"a", "U+00E9", "/"}, n \in {VmIdMax, VmIdMax + 1}}
       \cup {Repeat("/", 3) \o Repeat("a", VmIdMax + 1)}
InputStrings == ShortStrings \cup LongStrings

\* VmId::new is applied to a string
SanitizeVmId ==
    /\ \E id \in InputStrings, ts \in {<<"7", "f">>, <<"a", "7", "f">>} :
          fnCall' = Called("VmId::new", id, VmId_new(id, ts))
    /\ FnOnly

\* sanitize_image_name is applied to a string
SanitizeImageRef ==
    /\ \E image \in InputStrings :
          fnCall' = Called("sanitize_image_name", image, sanitize_image_ref(image))
    /\ FnOnly

FnNext ==
    \/ ServeExec
    \/ ReasonExitCode
    \/ InteractiveExit
    \/ SanitizeVmId
    \/ SanitizeImageRef
FnSpec == Init /\ [][FnNext]_vars

\* the set of the chars of a string
CharsOf(s) == {s[i] : i \in 1..Len(s)}

\* the sanitized image reference has no '/', ':' or '@'
ImageRefSanitized ==
    fnCall.fn = "sanitize_image_name" =>
       CharsOf(fnCall.res) \cap {"/", ":", "@"} = {}

\* the sanitized VM id has at most 64 chars, none of them punctuation
VmIdBounded ==
    fnCall.fn = "VmId::new" =>
       /\ Len(fnCall.res) <= 64 /\ fnCall.res # <<>>
       /\ CharsOf(fnCall.res) \cap Punctuation = {}

\* C24: for every input string, the sanitized VM id contains only chars of
\* [A-Za-z0-9_-] and has length at most 64, and the sanitized image
\* reference contains no '/', ':' or '@'.
C24_Sanitization ==
    /\ ImageRefSanitized
    /\ fnCall.fn = "VmId::new" =>
          /\ CharsOf(fnCall.res) \subseteq AsciiAlphanumeric \cup {"-", "_"}
          /\ Len(fnCall.res) <= 64

(***************************************************************************)
(* Part IX: the registry file and the processes that save it.  Every       *)
(* process reads the file once, when it starts, and saves by writing its   *)
(* whole copy (SmolvmConfig::save, config.rs:88-90).                       *)
(***************************************************************************)
RegistryOnly ==
    UNCHANGED <<mgrVars, agVars, frVars, cdVars, stVars, apVars, ldVars, fnCall>>

\* SmolvmConfig::load (config.rs:83-85): the copy of the process is the file
\* as it is now (the default when there is none); called by main
\* (main.rs:62-68) and by ApiState::new (api/state.rs:35)
load(p) ==
    /\ rfProc[p].pc = "new"
    /\ rfProc' = [rfProc EXCEPT ![p] = [pc |-> "loaded", vms |-> rfFile,
                                         arg |-> "none"]]
    /\ UNCHANGED <<rfFile, rfLast>>
    /\ RegistryOnly

\* SmolvmConfig::save (config.rs:88-90) by process p for the record of name:
\* confy::store writes the file from the copy vms
save(p, vms, name) ==
    /\ rfFile' = vms
    /\ rfLast' = [proc |-> p, name |-> name]

\* CreateCmd::run (cli/create.rs:63-164): an error, and the exit of the
\* process (main.rs:84-88), when the copy has a record of the name; the
\* record is inserted as created and the copy saved otherwise
CreateRun(p, name) ==
    /\ p \in Cli /\ rfProc[p].pc = "loaded"
    /\ IF rfProc[p].vms[name] # "none"
       THEN /\ rfProc' = [rfProc EXCEPT ![p] = [pc |-> "new", vms |-> NoVms,
                                                arg |-> "none"]]
            /\ UNCHANGED <<rfFile, rfLast>>
       ELSE LET vms == [rfProc[p].vms EXCEPT ![name] = "created"] IN
            /\ rfProc' = [rfProc EXCEPT ![p] = [pc |-> "ran", vms |-> vms,
                                                arg |-> name]]
            /\ save(p, vms, name)
    /\ RegistryOnly

\* main (main.rs:90-93): the command has succeeded, the copy is saved once
\* more and the process ends
MainSave(p) ==
    /\ p \in Cli /\ rfProc[p].pc = "ran"
    /\ save(p, rfProc[p].vms, rfProc[p].arg)
    /\ rfProc' = [rfProc EXCEPT ![p] = [pc |-> "new", vms |-> NoVms,
                                         arg |-> "none"]]
    /\ RegistryOnly

\* ApiState::update_sandbox_state (api/state.rs:192-201): under
\* config.write(), the record of the name, when the copy has one, gets the
\* state and the copy is saved
update_sandbox_state(name, st) ==
    /\ rfProc["server"].pc = "loaded"
    /\ rfProc["server"].vms[name] # "none"
    /\ LET vms == [rfProc["server"].vms EXCEPT ![name] = st] IN
       /\ rfProc' = [rfProc EXCEPT !["server"].vms = vms]
       /\ save("server", vms, name)
    /\ RegistryOnly

RegistryNext ==
    \/ \E p \in Procs : load(p)
    \/ \E p \in Cli, name \in RfNames : CreateRun(p, name)
    \/ \E p \in Cli : MainSave(p)
    \/ \E name \in RfNames, st \in {"running", "stopped"} :
          update_sandbox_state(name, st)
RegistrySpec == Init /\ [][RegistryNext]_vars

\* the step is a save that changes, in the file, a record that exists and
\* is not the one the save was made for
LosesRecord ==
    \E n \in RfNames :
       /\ rfFile[n] # "none" /\ rfFile'[n] # rfFile[n]
       /\ n # rfLast'.name

\* C40: the writers of the registry file are serialized: a record written
\* by one writer is never lost or overwritten by the save of another.
C40_SavesKeepOtherRecords == [][~LosesRecord]_vars

\* a process whose copy is the file as it is loses no record with its save
CurrentCopyLosesNothing ==
    [][\A p \in Procs :
          (rfProc[p].pc # "new" /\ rfProc[p].vms = rfFile /\ rfLast'.proc = p)
             => ~LosesRecord]_vars
====
